---- MODULE Spec2Model ----
(***************************************************************************)
(* A model of the EnergyPlus MCP server's tool handlers.                   *)
(*                                                                         *)
(* The model engine (EnergyPlusManager), the file system and the clock are *)
(* the environment: every call into them is answered by one of the         *)
(* outcomes the handler's code distinguishes, chosen nondeterministically  *)
(* and recorded so that the handlers' bookkeeping can be compared with     *)
(* what the environment really did.                                        *)
(*                                                                         *)
(* Each handler is one action (Mbp_Call, Insp_Call, Pre_Call, Sm_ClearLogs)*)
(* computing the whole response from the arguments and the environment's   *)
(* answers; *_Return hands the response back and makes the handler ready   *)
(* for the next request (the protocol loop is single threaded).            *)
(***************************************************************************)
EXTENDS Integers, Sequences, FiniteSets, TLC

\* Longest operation list handed to modify_basic_parameters.
MaxOps == 3

\* Longest focus list handed to inspect_model.
MaxFocus == 2

\* Most engine readers that fail during one inspect_model call.
MaxFailing == 1

\* The last reading of the clock (in half seconds).
MaxClock == 2

\* Most log lines the logging subsystem writes.
MaxLines == 3

\* The most lines the two log files hold together when server_manager reads them.
MaxLogLen == 2

\* The latest instant a log line or a `since` argument carries.
MaxInstant == 2

\* The longest .err file handed to the error parser.
MaxErrLines == 3

\* Python's None, and the mark of a key that a JSON object does not have.
None == "None"
NoKey == "<no key>"

VARIABLES
    mbp_pc,      \* "idle" | "returned": modify_basic_parameters
    mbp_in,      \* the arguments of the call being answered
    mbp_out,     \* the response
    mbp_engine   \* the engine calls the handler made, in order, with their outcomes

VARIABLES
    insp_pc,     \* "idle" | "returned": inspect_model
    insp_in,     \* the arguments of the call being answered
    insp_env,    \* what each engine reader does when it is called
    insp_out,    \* the response
    insp_engine  \* the engine readers the handler called, in order

VARIABLES
    pre_pc,      \* "idle" | "returned": model_preflight
    pre_in,      \* the arguments of the call being answered
    pre_env,     \* the configuration, the file system and the engine, as the call finds them
    pre_out,     \* the response
    pre_engine   \* the checks and engine calls the handler made, in order

VARIABLES
    platform,    \* "posix" | "windows": what Path.rename does to an existing target
    clock,       \* the UTC clock, in half seconds
    fs,          \* the logs directory: file name -> its lines, or Absent
    next_line,   \* the number of log lines written so far
    sm_in,       \* the arguments of the last clear_logs call
    sm_out,      \* its response
    sm_raised,   \* whether one of its renames raised
    sm_env,      \* what happened to each planned file during the call
    sm_quiet     \* nothing was logged since that call

VARIABLES
    lg_pc,       \* "idle" | "returned": server_manager action="logs"
    lg_in,       \* the arguments of the call being answered
    lg_files,    \* the two log files as the call finds them
    lg_out       \* the response

VARIABLES
    ep_pc,       \* "idle" | "parsed" | "analyzed": the error parser
    ep_file,     \* the .err file handed to parse_error_file
    ep_parsed,   \* what parse_error_file returned
    ep_analysis  \* what analyze_root_cause returned for it

VARIABLES
    su_pc,       \* "down" | "up" | "crashed": the server process
    su_yaml,     \* the tool_surface section of config.yaml the startup found
    su_env,      \* the MCP_EXPOSE_* environment variables it found
    su_flags,    \* the EXPOSE_* module globals once startup is over
    su_tools,    \* the names of the tools registered with the protocol runtime
    su_regs      \* the names handed to mcp.tool(), one per registration, in order

VARIABLES
    th_pc,       \* "idle" | "returned": simulation_manager, hvac_loop_inspect, file_utils, the outputs list
    th_in,       \* the arguments of the call being answered
    th_env,      \* how the engine answers the calls the handler makes
    th_out,      \* the response, or the exception that left the handler
    th_engine    \* the engine calls the handler made, in order

mbpVars == <<mbp_pc, mbp_in, mbp_out, mbp_engine>>

inspVars == <<insp_pc, insp_in, insp_env, insp_out, insp_engine>>

preVars == <<pre_pc, pre_in, pre_env, pre_out, pre_engine>>

logVars == <<platform, clock, fs, next_line, sm_in, sm_out, sm_raised, sm_env, sm_quiet>>

lgVars == <<lg_pc, lg_in, lg_files, lg_out>>

epVars == <<ep_pc, ep_file, ep_parsed, ep_analysis>>

suVars == <<su_pc, su_yaml, su_env, su_flags, su_tools, su_regs>>

thVars == <<th_pc, th_in, th_env, th_out, th_engine>>

vars == <<mbpVars, inspVars, preVars, logVars, lgVars, epVars, suVars, thVars>>

-----------------------------------------------------------------------------
(***************************************************************************)
(* modify_basic_parameters: the modification orchestrator.                 *)
(* Two handlers carry this name: the one tools/modify.py registers with    *)
(* the master tools ("tools") and the one server.py registers itself       *)
(* ("server").                                                             *)
(***************************************************************************)

Impls == {"tools", "server"}

AllowedOps ==
    {"people.update", "lights.update", "electric_equipment.update",
     "infiltration.scale", "envelope.add_window_film", "envelope.add_coating",
     "outputs.add_variables", "outputs.add_meters"}

InternalLoadOps == {"people.update", "lights.update", "electric_equipment.update"}

EnvelopeOps == {"infiltration.scale", "envelope.add_window_film", "envelope.add_coating"}

OutputOps == {"outputs.add_variables", "outputs.add_meters"}

\* The "op" fields the model hands in: a raw string is its text and whether it
\* carries surrounding blanks.
RawOps ==
    {[text |-> "people.update", padded |-> FALSE],
     [text |-> "infiltration.scale", padded |-> TRUE],
     [text |-> "outputs.add_variables", padded |-> FALSE],
     [text |-> "bogus.op", padded |-> FALSE]}

\* str(op.get("op", "")).strip()
OpName(raw) == raw.text

\* mode.lower()
Lower(m) == IF m = "Dry_Run" THEN "dry_run" ELSE m

MbpModes == {"dry_run", "Dry_Run", "apply"}

IdfPath == "in.idf"
OutputPath == "target.idf"

\* The file the engine writes for the operation at (0-based) index idx.
OutputFile(idx) == "out" \o ToString(idx) \o ".idf"

\* What the engine does with one modify call: it writes a file and reports it
\* as output_file/output_path; it answers without naming a file (or not in
\* JSON); it raises FileNotFoundError; it raises another exception.
EngineOutcomes == {"file", "nofile", "notfound", "error"}

SeqsUpTo(S, n) == UNION {[1..k -> S] : k \in 0..n}

\* A planning loop that records an unknown op and then plans it all the same.
RECURSIVE PlanLoop_NoContinue(_, _, _, _)
PlanLoop_NoContinue(ops, i, plan, errors) ==
    IF i > Len(ops) THEN [plan |-> plan, errors |-> errors]
    ELSE LET op_name == OpName(ops[i])
             idx == i - 1
         IN PlanLoop_NoContinue(ops, i + 1, Append(plan, [index |-> idx, op |-> op_name]),
                                IF op_name \notin AllowedOps
                                THEN errors \cup {ToString(idx)} ELSE errors)

\* Planning loop: (plan, errors).
RECURSIVE PlanLoop(_, _, _, _)
PlanLoop(ops, i, plan, errors) ==
    IF i > Len(ops) THEN [plan |-> plan, errors |-> errors]
    ELSE LET op_name == OpName(ops[i])
             idx == i - 1
         IN IF op_name \notin AllowedOps
            THEN PlanLoop(ops, i + 1, plan, errors \cup {ToString(idx)})
            ELSE PlanLoop(ops, i + 1, Append(plan, [index |-> idx, op |-> op_name]), errors)

\* Whether the handler reaches the engine for this operation.
ReachesEngine(impl, op_name) ==
    IF impl = "tools"
    THEN op_name \in InternalLoadOps \cup EnvelopeOps \cup OutputOps
    ELSE op_name \in OutputOps


\* The environment's answers to one apply loop: one outcome for each operation
\* that reaches the engine, "none" for the others.
RECURSIVE OutcomeSeqs(_, _)
OutcomeSeqs(impl, ops) ==
    IF ops = <<>> THEN {<<>>}
    ELSE {<<o>> \o rest :
            o \in (IF ReachesEngine(impl, OpName(Head(ops))) THEN EngineOutcomes ELSE {"none"}),
            rest \in OutcomeSeqs(impl, Tail(ops))}

\* An apply loop that never moves on to the file an operation wrote.
AdvancePath_Stay(current, output_file) == current

\* if output_file: current_path = output_file; final_output = output_file
AdvancePath(current, output_file) ==
    IF output_file # None THEN output_file ELSE current

EngineCall(idx, op_name, path, outcome) ==
    [index |-> idx, op |-> op_name, path |-> path, outcome |-> outcome,
     wrote |-> IF outcome = "file" THEN OutputFile(idx) ELSE None]

Result(idx, op_name, status, output_file) ==
    [index |-> idx, op |-> op_name, status |-> status, output_file |-> output_file]

\* The body of the apply loop once the engine has been called: the response is
\* parsed for output_file/output_path, or the exception is caught.
AfterEngine(st, idx, op_name, outcome, ok_status) ==
    LET call == EngineCall(idx, op_name, st.current_path, outcome)
    IN IF outcome \in {"notfound", "error"}
       THEN [st EXCEPT !.results = Append(@, Result(idx, op_name, "error", NoKey)),
                       !.engine = Append(@, call)]
       ELSE LET output_file == call.wrote
            IN [current_path |-> AdvancePath(st.current_path, output_file),
                final_output |-> AdvancePath(st.final_output, output_file),
                results |-> Append(st.results, Result(idx, op_name, ok_status, output_file)),
                engine |-> Append(st.engine, call)]

\* One iteration of the apply loop of tools/modify.py.
ToolsApplyStep(st, idx, op_name, outcome) ==
    IF op_name \in InternalLoadOps \cup EnvelopeOps \cup OutputOps
    THEN AfterEngine(st, idx, op_name, outcome, NoKey)
    ELSE \* resp = json.dumps({"unsupported": op_name})
         [st EXCEPT !.results = Append(@, Result(idx, op_name, NoKey, None))]

\* An apply loop of server.py that passes over an unsupported op without a word.
ServerApplyStep_SkipUnsupported(st, idx, op_name, outcome) ==
    IF op_name \notin AllowedOps
    THEN st
    ELSE IF op_name \in InternalLoadOps \cup EnvelopeOps
    THEN [st EXCEPT !.results = Append(@, Result(idx, op_name, "error", NoKey))]
    ELSE AfterEngine(st, idx, op_name, outcome, "applied")

\* One iteration of the apply loop of server.py. modify_internal_loads and
\* modify_envelope are names server.py never binds: using them raises
\* NameError, which the loop's `except Exception` records.
ServerApplyStep(st, idx, op_name, outcome) ==
    IF op_name \notin AllowedOps
    THEN [st EXCEPT !.results = Append(@, Result(idx, op_name, "error", NoKey))]
    ELSE IF op_name \in InternalLoadOps \cup EnvelopeOps
    THEN [st EXCEPT !.results = Append(@, Result(idx, op_name, "error", NoKey))]
    ELSE AfterEngine(st, idx, op_name, outcome, "applied")

ApplyStep(impl, st, idx, op_name, outcome) ==
    IF impl = "tools" THEN ToolsApplyStep(st, idx, op_name, outcome)
    ELSE ServerApplyStep(st, idx, op_name, outcome)

\* for idx, op in enumerate(operations): ...
RECURSIVE ApplyLoop(_, _, _, _, _)
ApplyLoop(impl, ops, outs, i, st) ==
    IF i > Len(ops) THEN st
    ELSE ApplyLoop(impl, ops, outs, i + 1,
                   ApplyStep(impl, st, i - 1, OpName(ops[i]), outs[i]))

\* "final_file" of the response.
ToolsFinalFile(final_output, output_path, copied) ==
    IF final_output # None THEN final_output ELSE IdfPath

ServerFinalFile(final_output, output_path, copied) ==
    IF copied THEN output_path
    ELSE IF final_output # None THEN final_output ELSE IdfPath

FinalFile(impl, final_output, output_path, copied) ==
    IF impl = "tools" THEN ToolsFinalFile(final_output, output_path, copied)
    ELSE ServerFinalFile(final_output, output_path, copied)

\* if capabilities or (mode.lower() == "dry_run" and not operations)
TakesCapabilities(ops, mode, capabilities) ==
    capabilities \/ (Lower(mode) = "dry_run" /\ ops = <<>>)

\* Whether the call goes on to the apply loop.
TakesApply(ops, mode, capabilities) ==
    ~TakesCapabilities(ops, mode, capabilities) /\ Lower(mode) = "apply"

\* The capability branch of server.py reads the zone list when an idf_path is
\* given and detail == "detailed"; tools/modify.py only lists the op names.
CapabilitiesReadsZones(impl, detail) ==
    impl = "server" /\ detail = "detailed"

\* The whole handler: the response and the engine calls made.
modify_basic_parameters(impl, ops, mode, output_path, capabilities, detail, outs, copy_ok, zones_ok) ==
    IF TakesCapabilities(ops, mode, capabilities)
    THEN [out |-> [kind |-> "capabilities", plan |-> <<>>, errors |-> {},
                   results |-> <<>>, final_file |-> NoKey],
          engine |-> IF CapabilitiesReadsZones(impl, detail)
                     THEN <<[index |-> -1, op |-> "list_zones", path |-> IdfPath,
                             outcome |-> IF zones_ok THEN "nofile" ELSE "error",
                             wrote |-> None]>>
                     ELSE <<>>]
    ELSE LET planned == PlanLoop(ops, 1, <<>>, {})
         IN IF Lower(mode) # "apply"
            THEN [out |-> [kind |-> "plan", plan |-> planned.plan, errors |-> planned.errors,
                           results |-> <<>>, final_file |-> NoKey],
                  engine |-> <<>>]
            ELSE LET st == ApplyLoop(impl, ops, outs, 1,
                                     [current_path |-> IdfPath, final_output |-> None,
                                      results |-> <<>>, engine |-> <<>>])
                     copies == output_path # None /\ st.final_output # None
                     copied == copies /\ copy_ok
                 IN [out |-> [kind |-> "apply", plan |-> planned.plan,
                              errors |-> planned.errors \cup
                                         (IF copies /\ ~copy_ok THEN {"final_copy"} ELSE {}),
                              results |-> st.results,
                              final_file |-> FinalFile(impl, st.final_output, output_path, copied)],
                     engine |-> IF copies
                                THEN Append(st.engine,
                                            [index |-> Len(ops), op |-> "copy_file",
                                             path |-> st.final_output,
                                             outcome |-> IF copy_ok THEN "file" ELSE "error",
                                             wrote |-> IF copy_ok THEN output_path ELSE None])
                                ELSE st.engine]

NoCall == [impl |-> "none"]
NoResponse == [kind |-> "none"]

Mbp_Init ==
    /\ mbp_pc = "idle"
    /\ mbp_in = NoCall
    /\ mbp_out = NoResponse
    /\ mbp_engine = <<>>

\* A client calls modify_basic_parameters and the handler runs to its return.
Mbp_Call ==
    /\ mbp_pc = "idle"
    /\ \E impl \in Impls, ops \in SeqsUpTo(RawOps, MaxOps), mode \in MbpModes,
          output_path \in {None, OutputPath}, capabilities \in BOOLEAN,
          detail \in {"summary", "detailed"} :
         \E outs \in (IF TakesApply(ops, mode, capabilities)
                      THEN OutcomeSeqs(impl, ops) ELSE {<<>>}),
            copy_ok \in (IF TakesApply(ops, mode, capabilities) /\ output_path # None
                         THEN BOOLEAN ELSE {TRUE}),
            zones_ok \in (IF TakesCapabilities(ops, mode, capabilities)
                             /\ CapabilitiesReadsZones(impl, detail)
                          THEN BOOLEAN ELSE {TRUE}) :
           LET r == modify_basic_parameters(impl, ops, mode, output_path, capabilities,
                                            detail, outs, copy_ok, zones_ok)
           IN /\ mbp_in' = [impl |-> impl, operations |-> ops, mode |-> mode,
                            output_path |-> output_path, capabilities |-> capabilities,
                            detail |-> detail]
              /\ mbp_out' = r.out
              /\ mbp_engine' = r.engine
    /\ mbp_pc' = "returned"
    /\ UNCHANGED <<inspVars, preVars, logVars, lgVars, epVars, suVars, thVars>>

\* The response is handed to the protocol runtime.
Mbp_Return ==
    /\ mbp_pc = "returned"
    /\ mbp_pc' = "idle"
    /\ mbp_in' = NoCall
    /\ mbp_out' = NoResponse
    /\ mbp_engine' = <<>>
    /\ UNCHANGED <<inspVars, preVars, logVars, lgVars, epVars, suVars, thVars>>

Mbp_Next == Mbp_Call \/ Mbp_Return


-----------------------------------------------------------------------------
(* Claims about modify_basic_parameters, over what the engine really did.  *)

MaxOf(S) == CHOOSE x \in S : \A y \in S : y <= x

MbpApplied == mbp_pc = "returned" /\ mbp_out.kind = "apply"

NumOps == Len(mbp_in.operations)

\* The engine calls of the apply loop (the final copy is not one of them).
ModifyCalls == SelectSeq(mbp_engine, LAMBDA c : c.op # "copy_file")

\* The file the k-th modify call should have been given: the file written by
\* the latest earlier call that returned one, else the caller's idf_path.
ExpectedInput(calls, k) ==
    LET wrote == {j \in 1..(k - 1) : calls[j].outcome = "file"}
    IN IF wrote = {} THEN IdfPath ELSE calls[MaxOf(wrote)].wrote

\* The engine call made for the operation at 0-based index idx, if any.
CallsFor(idx) == {k \in 1..Len(ModifyCalls) : ModifyCalls[k].index = idx}

\* C1: in apply mode the operations are executed in the caller's list order,
\* and each engine call is given the file written by the latest earlier
\* operation that succeeded and reported one, or idf_path when there is none.
C1_ChainedInListOrder ==
    MbpApplied =>
        /\ Len(mbp_out.results) = NumOps
        /\ \A k \in 1..NumOps : mbp_out.results[k].index = k - 1
        /\ \A k, l \in 1..Len(ModifyCalls) :
               k < l => ModifyCalls[k].index < ModifyCalls[l].index
        /\ \A k \in 1..Len(ModifyCalls) :
               /\ ModifyCalls[k].index \in 0..(NumOps - 1)
               /\ ModifyCalls[k].op = OpName(mbp_in.operations[ModifyCalls[k].index + 1])
               /\ ModifyCalls[k].path = ExpectedInput(ModifyCalls, k)

\* C1 witness: a file is written, the next operation fails in the engine, and
\* the third is given the first one's file.
C1_Witness ==
    /\ MbpApplied
    /\ Len(ModifyCalls) = 3
    /\ ModifyCalls[1].outcome = "file"
    /\ ModifyCalls[2].outcome = "error"
    /\ ModifyCalls[3].path = ModifyCalls[1].wrote

\* Ground truth for one operation (1-based position i).
OpSucceeded(i) ==
    \E k \in CallsFor(i - 1) : ModifyCalls[k].outcome \in {"file", "nofile"}

OpFailed(i) == ~OpSucceeded(i)

\* C2 (as claimed): in apply mode every operation has its result; a failed
\* one (unknown op, missing file, any other exception) has status "error",
\* a successful one has status "applied", and the later ones are executed.
C2_FailuresRecordedAndTolerated ==
    MbpApplied =>
        /\ Len(mbp_out.results) = NumOps
        /\ \A i \in 1..NumOps :
               /\ OpFailed(i) => mbp_out.results[i].status = "error"
               /\ OpSucceeded(i) => mbp_out.results[i].status = "applied"

\* The output file of the last operation that produced one, or None.
LastProduced ==
    LET wrote == {j \in 1..Len(ModifyCalls) : ModifyCalls[j].outcome = "file"}
    IN IF wrote = {} THEN None ELSE ModifyCalls[MaxOf(wrote)].wrote

CopySucceeded ==
    \E k \in 1..Len(mbp_engine) :
        mbp_engine[k].op = "copy_file" /\ mbp_engine[k].outcome = "file"

\* C3 (as claimed): final_file is the caller's output_path when one was
\* given, an output was produced and the copy succeeded; else the last
\* produced output file; else idf_path.
C3_FinalFile ==
    MbpApplied =>
        mbp_out.final_file =
            IF mbp_in.output_path # None /\ LastProduced # None /\ CopySucceeded
            THEN mbp_in.output_path
            ELSE IF LastProduced # None THEN LastProduced ELSE IdfPath

\* What a dry run has to answer: the allowed operations as {index, op} in list
\* order, and one error per operation that is not allowed.
PlanIsExact(ops, plan, errors) ==
    /\ \A k \in 1..Len(plan) :
           /\ plan[k].index \in 0..(Len(ops) - 1)
           /\ plan[k].op = OpName(ops[plan[k].index + 1])
    /\ \A k, l \in 1..Len(plan) : k < l => plan[k].index < plan[l].index
    /\ {plan[k].index : k \in 1..Len(plan)} =
           {i - 1 : i \in {j \in 1..Len(ops) : OpName(ops[j]) \in AllowedOps}}
    /\ errors = {ToString(i - 1) : i \in {j \in 1..Len(ops) : OpName(ops[j]) \notin AllowedOps}}

DryRunAnswer ==
    /\ mbp_engine = <<>>
    /\ mbp_out.kind = "plan"
    /\ PlanIsExact(mbp_in.operations, mbp_out.plan, mbp_out.errors)

\* C4 (as claimed): with mode "dry_run" and a non-empty operation list no
\* engine call is made and the answer is the exact plan and errors.
C4_DryRunPlansOnly ==
    (mbp_pc = "returned" /\ mbp_in.mode = "dry_run" /\ mbp_in.operations # <<>>)
        => DryRunAnswer

\* C4 (amended): the same, for calls that do not ask for capabilities.
C4_DryRunPlansOnlyUnlessCapabilities ==
    (mbp_pc = "returned" /\ mbp_in.mode = "dry_run" /\ mbp_in.operations # <<>>
        /\ ~mbp_in.capabilities)
        => DryRunAnswer

\* C4 witness: a dry run over allowed and unknown operations.
C4_Witness ==
    /\ mbp_pc = "returned" /\ mbp_in.mode = "dry_run" /\ ~mbp_in.capabilities
    /\ Len(mbp_in.operations) = 3
    /\ Len(mbp_out.plan) = 2
    /\ mbp_out.errors = {"1"}



\* C28: in apply mode the results list has one entry per supplied operation,
\* in list order: entry i carries the (zero-based) index of operation i and its
\* op name, whatever succeeded, was unknown or failed in the engine.
C28_OneResultPerOperation ==
    MbpApplied =>
        /\ Len(mbp_out.results) = NumOps
        /\ \A i \in 1..Len(mbp_out.results) :
              /\ mbp_out.results[i].index = i - 1
              /\ i <= NumOps => mbp_out.results[i].op = OpName(mbp_in.operations[i])

\* C28 witness: a success, an unknown op and an engine failure in one call.
C28_Witness ==
    /\ MbpApplied /\ mbp_in.impl = "server" /\ NumOps = 3
    /\ OpName(mbp_in.operations[1]) = "outputs.add_variables"
    /\ OpName(mbp_in.operations[2]) = "bogus.op"
    /\ OpName(mbp_in.operations[3]) = "outputs.add_variables"
    /\ Len(ModifyCalls) = 2
    /\ ModifyCalls[1].outcome = "file" /\ ModifyCalls[2].outcome = "error"
    /\ Len(mbp_out.results) = 3

-----------------------------------------------------------------------------
(***************************************************************************)
(* inspect_model: the inspection aggregator (tools/inspect.py).            *)
(***************************************************************************)

\* all_focus, as a list and as a set.
all_focus ==
    <<"summary", "zones", "surfaces", "materials", "schedules", "people", "lights",
      "electric_equipment">>

Sections == {all_focus[k] : k \in 1..Len(all_focus)}

\* canonical.get(x, x): every key of `canonical` maps to itself.
Canonical(x) == x

\* The tokens the model hands in: the eight sections, "all", and one token
\* outside the vocabulary.
FocusTokens == Sections \cup {"all", "not_a_section"}

\* focus=None is [given |-> FALSE], a list is [given |-> TRUE, tokens |-> ...].
FocusArgs ==
    {[given |-> FALSE, tokens |-> <<>>]} \cup
    {[given |-> TRUE, tokens |-> t] : t \in SeqsUpTo(FocusTokens, MaxFocus)}

\* The normalisation without the `== "all"` test: "all" is then one more
\* token outside all_focus.
Normalize_AllUnknown(focus) ==
    IF ~focus.given \/ focus.tokens = <<>> THEN all_focus
    ELSE SelectSeq(focus.tokens, LAMBDA item : Canonical(item) \in Sections)

\* if not focus or any(canonical.get(x, x) == "all" for x in focus): ... else: ...
Normalize(focus) ==
    IF ~focus.given \/ focus.tokens = <<>>
       \/ \E k \in 1..Len(focus.tokens) : Canonical(focus.tokens[k]) = "all"
    THEN all_focus
    ELSE SelectSeq(focus.tokens, LAMBDA item : Canonical(item) \in Sections)

\* The engine calls in the order of the handler's try block; the sections of
\* one group are read by one helper call and reach `results` together.
ReadGroups ==
    <<<<"summary">>, <<"zones">>, <<"schedules">>, <<"surfaces", "materials">>,
      <<"people", "lights", "electric_equipment">>>>

ReaderOutcomes == {"ok", "notfound", "error"}

\* What the engine readers do: at most MaxFailing of them fail.
ReaderBehaviours ==
    {r \in [Sections -> ReaderOutcomes] :
        Cardinality({s \in Sections : r[s] # "ok"}) <= MaxFailing}

\* One helper call (inspect_envelope_data, inspect_internal_loads_data, or a
\* single reader): reads the wanted sections of the group in order and stops
\* at the first exception. [called, raised]
RECURSIVE ReadGroup(_, _, _, _)
ReadGroup(group, wanted, readers, called) ==
    IF group = <<>> THEN [called |-> called, raised |-> "ok"]
    ELSE IF Head(group) \notin wanted
    THEN ReadGroup(Tail(group), wanted, readers, called)
    ELSE IF readers[Head(group)] # "ok"
    THEN [called |-> Append(called, Head(group)), raised |-> readers[Head(group)]]
    ELSE ReadGroup(Tail(group), wanted, readers, Append(called, Head(group)))

SeqToSet(q) == {q[k] : k \in 1..Len(q)}

\* The try block: the groups in order, until one raises.
RECURSIVE ReadAll(_, _, _, _)
ReadAll(groups, normalized, readers, st) ==
    IF groups = <<>> THEN st
    ELSE LET wanted == SeqToSet(normalized)
             got == ReadGroup(Head(groups), wanted, readers, <<>>)
             engine == st.engine \o got.called
         IN IF got.raised = "ok"
            THEN ReadAll(Tail(groups), normalized, readers,
                         [st EXCEPT !.results = @ \cup SeqToSet(got.called),
                                    !.engine = engine])
            ELSE IF got.raised = "notfound"
            THEN \* except FileNotFoundError: errors.setdefault(k, ...) for k in normalized
                 [st EXCEPT !.errors = wanted, !.engine = engine]
            ELSE \* except Exception: errors["aggregation"] = str(e)
                 [st EXCEPT !.errors = {"aggregation"}, !.engine = engine]

\* The whole handler: the response and the engine readers called.
inspect_model(focus, readers) ==
    LET normalized == Normalize(focus)
        st == ReadAll(ReadGroups, normalized, readers,
                      [results |-> {}, errors |-> {}, engine |-> <<>>])
    IN [out |-> [focus |-> normalized, results |-> st.results, errors |-> st.errors],
        engine |-> st.engine]

Insp_Init ==
    /\ insp_pc = "idle"
    /\ insp_in = [given |-> FALSE, tokens |-> <<>>]
    /\ insp_env = [s \in Sections |-> "ok"]
    /\ insp_out = [focus |-> <<>>, results |-> {}, errors |-> {}]
    /\ insp_engine = <<>>

\* A client calls inspect_model and the handler runs to its return.
Insp_Call ==
    /\ insp_pc = "idle"
    /\ \E focus \in FocusArgs, readers \in ReaderBehaviours :
         LET r == inspect_model(focus, readers)
         IN /\ insp_in' = focus
            /\ insp_env' = readers
            /\ insp_out' = r.out
            /\ insp_engine' = r.engine
    /\ insp_pc' = "returned"
    /\ UNCHANGED <<mbpVars, preVars, logVars, lgVars, epVars, suVars, thVars>>

\* The response is handed to the protocol runtime.
Insp_Return ==
    /\ insp_pc = "returned"
    /\ insp_pc' = "idle"
    /\ insp_in' = [given |-> FALSE, tokens |-> <<>>]
    /\ insp_env' = [s \in Sections |-> "ok"]
    /\ insp_out' = [focus |-> <<>>, results |-> {}, errors |-> {}]
    /\ insp_engine' = <<>>
    /\ UNCHANGED <<mbpVars, preVars, logVars, lgVars, epVars, suVars, thVars>>

Insp_Next == Insp_Call \/ Insp_Return

-----------------------------------------------------------------------------
(* Claims about inspect_model.                                             *)

InspReturned == insp_pc = "returned"

HasAll(focus) == \E k \in 1..Len(focus.tokens) : focus.tokens[k] = "all"

\* C5: a focus list containing "all" gets the answer of a call with focus
\* absent or empty under the same engine behaviour: the normalized focus is
\* the eight sections, and the results hold the same keys (all eight when
\* every reader answers).
C5_AllIsAbsentFocus ==
    (InspReturned /\ HasAll(insp_in)) =>
        /\ insp_out.focus = all_focus
        /\ insp_out = inspect_model([given |-> FALSE, tokens |-> <<>>], insp_env).out
        /\ insp_out = inspect_model([given |-> TRUE, tokens |-> <<>>], insp_env).out
        /\ (\A s \in Sections : insp_env[s] = "ok") => insp_out.results = Sections

\* C5 witness: focus = ["all"], every reader answers, eight result keys.
C5_Witness ==
    /\ InspReturned
    /\ insp_in = [given |-> TRUE, tokens |-> <<"all">>]
    /\ Cardinality(insp_out.results) = 8

\* The tokens of the focus list outside the eight sections and "all".
UnknownTokens(focus) ==
    {focus.tokens[k] : k \in 1..Len(focus.tokens)} \ (Sections \cup {"all"})

\* C6 (as claimed): a focus list with a token outside the vocabulary aborts
\* the request: no engine call, empty results, the token under errors.focus.
C6_UnknownFocusAborts ==
    (InspReturned /\ UnknownTokens(insp_in) # {}) =>
        /\ insp_engine = <<>>
        /\ insp_out.results = {}
        /\ "focus" \in insp_out.errors

\* C7 (as claimed): a failing reader is recorded under its own section only,
\* and every other requested section is still read and, when its reader
\* answers, returned.
C7_SectionFailuresIsolated ==
    InspReturned =>
        \A s \in SeqToSet(insp_out.focus) :
            /\ s \in SeqToSet(insp_engine)
            /\ insp_env[s] = "ok" => (s \in insp_out.results /\ s \notin insp_out.errors)
            /\ insp_env[s] # "ok" => (s \in insp_out.errors /\ s \notin insp_out.results)


\* C29: no section is both in results and in errors, and every key of errors
\* is one of the requested sections.
C29_ResultsAndErrorsDisjoint ==
    InspReturned =>
        /\ insp_out.results \cap insp_out.errors = {}
        /\ insp_out.errors \subseteq SeqToSet(insp_out.focus)

-----------------------------------------------------------------------------
(***************************************************************************)
(* model_preflight (tools/preflight.py; server.py holds the same code).    *)
(***************************************************************************)

PreflightActions ==
    {"capabilities", "load", "validate", "info", "resolve_paths", "readiness", "other"}

\* config.energyplus.idd_path: not configured, configured but not on disk, on disk.
IddStates == {"unset", "missing", "exists"}

\* _resolve_idf_path / _resolve_weather_file_path followed by os.path.exists:
\* the path resolves to an existing file, resolves to a path that is not on
\* disk, or the resolver raises FileNotFoundError or another exception.
ResolveOutcomes == {"exists", "missing", "notfound", "error"}

\* validate_idf: a report with errors_count 0, with errors_count > 0, without
\* an integer errors_count, a string that is not JSON, or an exception.
ValidationOutcomes == {"clean", "errors", "no_count", "not_json", "notfound", "error"}

\* load_idf / get_model_basics.
CallOutcomes == {"ok", "notfound", "error"}

PreEnvs ==
    [idd : IddStates, idf : ResolveOutcomes, weather : ResolveOutcomes,
     validation : ValidationOutcomes, engine : CallOutcomes]

PreArgs == [action : PreflightActions, idf_path : BOOLEAN, weather_file : BOOLEAN]

\* The checks of readiness, in the order of the code.
ReadinessChecks(weather_file) ==
    <<"idd", "idf">> \o (IF weather_file THEN <<"weather">> ELSE <<>>) \o <<"validation">>

\* The issue one readiness check appends, None when it passes.
CheckIssue(check, env) ==
    CASE check = "idd" ->
            IF env.idd = "exists" THEN None ELSE "IDD not found"
      [] check = "idf" ->
            IF env.idf = "exists" THEN None
            ELSE IF env.idf = "missing" THEN "Resolved IDF does not exist"
            ELSE "Failed to resolve IDF"
      [] check = "weather" ->
            IF env.weather = "exists" THEN None
            ELSE IF env.weather = "missing" THEN "Resolved weather does not exist"
            ELSE "Failed to resolve weather file"
      [] check = "validation" ->
            IF env.validation \in {"clean", "no_count"} THEN None
            ELSE IF env.validation = "errors" THEN "Validation errors"
            ELSE "Validation failed"

\* A readiness that stops at the first failing check.
RECURSIVE RunChecks_ShortCircuit(_, _, _)
RunChecks_ShortCircuit(checks, env, st) ==
    IF checks = <<>> THEN st
    ELSE LET issue == CheckIssue(Head(checks), env)
             ran == Append(st.engine, Head(checks))
         IN IF issue = None
            THEN RunChecks_ShortCircuit(Tail(checks), env, [st EXCEPT !.engine = ran])
            ELSE [issues |-> Append(st.issues, issue), verdict |-> FALSE, engine |-> ran]

\* The readiness branch: every check runs; a failing one appends its issue
\* and sets verdict to False.
RECURSIVE RunChecks(_, _, _)
RunChecks(checks, env, st) ==
    IF checks = <<>> THEN st
    ELSE LET issue == CheckIssue(Head(checks), env)
             ran == Append(st.engine, Head(checks))
         IN RunChecks(Tail(checks), env,
                      IF issue = None
                      THEN [st EXCEPT !.engine = ran]
                      ELSE [issues |-> Append(st.issues, issue), verdict |-> FALSE,
                            engine |-> ran])

PreResponse(kind, verdict, issues) == [kind |-> kind, verdict |-> verdict, issues |-> issues]

\* The handler's outer except clauses.
Raised(outcome) ==
    PreResponse(IF outcome = "notfound" THEN "file_not_found" ELSE "error", None, <<>>)

\* The whole handler: the response and the checks and engine calls made.
model_preflight(args, env) ==
    IF args.action = "capabilities"
    THEN [out |-> PreResponse("capabilities", None, <<>>), engine |-> <<>>]
    ELSE IF ~args.idf_path
    THEN [out |-> PreResponse("missing_parameter", None, <<>>), engine |-> <<>>]
    ELSE IF args.action \in {"load", "info"}
    THEN [out |-> IF env.engine = "ok" THEN PreResponse("result", None, <<>>)
                  ELSE Raised(env.engine),
          engine |-> <<args.action>>]
    ELSE IF args.action = "validate"
    THEN [out |-> IF env.validation \in {"notfound", "error"} THEN Raised(env.validation)
                  ELSE PreResponse("result", None, <<>>),
          engine |-> <<"validation">>]
    ELSE IF args.action = "resolve_paths"
    THEN IF env.idf \in {"notfound", "error"}
         THEN [out |-> Raised(env.idf), engine |-> <<"idf">>]
         ELSE [out |-> PreResponse("paths", None, <<>>),
               engine |-> <<"idf">> \o (IF args.weather_file THEN <<"weather">> ELSE <<>>)]
    ELSE IF args.action = "readiness"
    THEN LET st == RunChecks(ReadinessChecks(args.weather_file), env,
                             [issues |-> <<>>, verdict |-> TRUE, engine |-> <<>>])
         IN [out |-> PreResponse("readiness", st.verdict, st.issues), engine |-> st.engine]
    ELSE [out |-> PreResponse("unsupported", None, <<>>), engine |-> <<>>]

NoPreArgs == [action |-> "none", idf_path |-> FALSE, weather_file |-> FALSE]
NoPreEnv ==
    [idd |-> "exists", idf |-> "exists", weather |-> "exists", validation |-> "clean",
     engine |-> "ok"]

Pre_Init ==
    /\ pre_pc = "idle"
    /\ pre_in = NoPreArgs
    /\ pre_env = NoPreEnv
    /\ pre_out = PreResponse("none", None, <<>>)
    /\ pre_engine = <<>>

\* A client calls model_preflight and the handler runs to its return.
Pre_Call ==
    /\ pre_pc = "idle"
    /\ \E args \in PreArgs, env \in PreEnvs :
         LET r == model_preflight(args, env)
         IN /\ pre_in' = args
            /\ pre_env' = env
            /\ pre_out' = r.out
            /\ pre_engine' = r.engine
    /\ pre_pc' = "returned"
    /\ UNCHANGED <<mbpVars, inspVars, logVars, lgVars, epVars, suVars, thVars>>

\* The response is handed to the protocol runtime.
Pre_Return ==
    /\ pre_pc = "returned"
    /\ pre_pc' = "idle"
    /\ pre_in' = NoPreArgs
    /\ pre_env' = NoPreEnv
    /\ pre_out' = PreResponse("none", None, <<>>)
    /\ pre_engine' = <<>>
    /\ UNCHANGED <<mbpVars, inspVars, logVars, lgVars, epVars, suVars, thVars>>

Pre_Next == Pre_Call \/ Pre_Return

-----------------------------------------------------------------------------
(* Claims about model_preflight.                                           *)

\* The readiness checks that fail, from the state of the world alone.
FailingChecks ==
    (IF pre_env.idd # "exists" THEN {"idd"} ELSE {})
    \cup (IF pre_env.idf # "exists" THEN {"idf"} ELSE {})
    \cup (IF pre_in.weather_file /\ pre_env.weather # "exists" THEN {"weather"} ELSE {})
    \cup (IF pre_env.validation \in {"errors", "not_json", "notfound", "error"}
          THEN {"validation"} ELSE {})

\* The check an issue text belongs to.
IssueCheck(issue) ==
    CASE issue = "IDD not found" -> "idd"
      [] issue \in {"Resolved IDF does not exist", "Failed to resolve IDF"} -> "idf"
      [] issue \in {"Resolved weather does not exist", "Failed to resolve weather file"}
            -> "weather"
      [] OTHER -> "validation"

ReadinessAsked ==
    pre_pc = "returned" /\ pre_in.action = "readiness" /\ pre_in.idf_path

\* C8: readiness runs all four checks whatever the earlier ones found (the
\* weather check when a weather file is given); issues has exactly one
\* entry per failing check and verdict is true exactly when none failed.
C8_ReadinessRunsEveryCheck ==
    ReadinessAsked =>
        /\ pre_out.kind = "readiness"
        /\ pre_engine = ReadinessChecks(pre_in.weather_file)
        /\ Len(pre_out.issues) = Cardinality(FailingChecks)
        /\ {IssueCheck(pre_out.issues[k]) : k \in 1..Len(pre_out.issues)} = FailingChecks
        /\ pre_out.verdict = (FailingChecks = {})

\* C8 witness: the IDD is missing, the IDF and the validation are fine:
\* one issue, verdict false, and the later checks still ran.
C8_Witness ==
    /\ ReadinessAsked
    /\ pre_env.idd = "missing" /\ pre_env.idf = "exists" /\ pre_env.validation = "clean"
    /\ ~pre_in.weather_file
    /\ pre_out.issues = <<"IDD not found">>
    /\ pre_out.verdict = FALSE
    /\ pre_engine = <<"idd", "idf", "validation">>

-----------------------------------------------------------------------------
(***************************************************************************)
(* server_manager action="clear_logs" (tools/server.py; server.py holds    *)
(* the same code), the logging subsystem that writes the two log files,    *)
(* and the clock.                                                          *)
(***************************************************************************)

\* energyplus_mcp_server.log and energyplus_mcp_errors.log
Logs == {"server", "error"}

\* datetime.utcnow().strftime("%Y%m%d_%H%M%S"): the clock cut to whole seconds.
Stamp(t) == t \div 2

Stamps == {Stamp(t) : t \in 0..MaxClock}

\* A file of the logs directory: a log under its own name, or its
\* <stem>_backup_<ts><suffix> sibling.
LogFile(log) == [log |-> log, backup |-> FALSE, ts |-> 0]

\* p.with_name(f"{p.stem}_backup_{ts}{p.suffix}")
BackupFile(log, ts) == [log |-> log, backup |-> TRUE, ts |-> ts]

\* Where a rotation that is not this system's moves a log file to.
ExternalFile(log) == [log |-> log, backup |-> TRUE, ts |-> -1]

FileNames ==
    {LogFile(l) : l \in Logs} \cup {BackupFile(l, ts) : l \in Logs, ts \in Stamps}
    \cup {ExternalFile(l) : l \in Logs}

Absent == [present |-> FALSE, lines |-> <<>>]

Exists(dir, name) == dir[name] # Absent

Selects == {"server", "error", "both"}

SmModes == {"dry_run", "apply"}

\* to_rotate
ToRotate(select) ==
    (IF select \in {"server", "both"} THEN <<"server">> ELSE <<>>)
    \o (IF select \in {"error", "both"} THEN <<"error">> ELSE <<>>)

\* plan: the selected log files that exist, each with its backup name.
RECURSIVE RotationPlan(_, _, _)
RotationPlan(dir, to_rotate, ts) ==
    IF to_rotate = <<>> THEN <<>>
    ELSE (IF Exists(dir, LogFile(Head(to_rotate)))
          THEN <<[from |-> LogFile(Head(to_rotate)), to |-> BackupFile(Head(to_rotate), ts)]>>
          ELSE <<>>)
         \o RotationPlan(dir, Tail(to_rotate), ts)

\* What the operating system does with one src.rename(dst).
RenameOutcomes == {"renamed", "oserror"}

\* src.rename(dst): on POSIX an existing dst is replaced, on Windows
\* FileExistsError is raised. [dir, raised]
Rename(dir, src, dst, outcome, os) ==
    IF outcome = "oserror" \/ (os = "windows" /\ Exists(dir, dst))
    THEN [dir |-> dir, raised |-> TRUE]
    ELSE [dir |-> [dir EXCEPT ![dst] = dir[src], ![src] = Absent], raised |-> FALSE]

\* What happens to one planned file once the plan is made: another process
\* rotates it away before the loop reaches it, or the loop's rename runs with
\* one of the operating system's outcomes.
ItemFates == RenameOutcomes \cup {"vanished"}

\* A rotation by another process: the log's lines go to its external archive.
ExternalRotation(dir, src) ==
    [dir EXCEPT ![ExternalFile(src.log)] =
                    [present |-> TRUE, lines |-> @.lines \o dir[src].lines],
                ![src] = Absent]

\* A rotation loop that gives up at the first rename that raises.
RECURSIVE RotateLoop_StopsAtFailure(_, _, _, _, _)
RotateLoop_StopsAtFailure(plan, outcomes, os, i, st) ==
    IF i > Len(plan) THEN st
    ELSE LET before == IF outcomes[i] = "vanished" /\ Exists(st.dir, plan[i].from)
                       THEN ExternalRotation(st.dir, plan[i].from) ELSE st.dir
         IN IF ~Exists(before, plan[i].from)
            THEN RotateLoop_StopsAtFailure(plan, outcomes, os, i + 1, [st EXCEPT !.dir = before])
            ELSE LET r == Rename(before, plan[i].from, plan[i].to, outcomes[i], os)
                 IN IF r.raised
                    THEN [st EXCEPT !.dir = before, !.raised = TRUE]
                    ELSE RotateLoop_StopsAtFailure(plan, outcomes, os, i + 1,
                            [dir |-> r.dir, rotated |-> Append(st.rotated, plan[i]),
                             raised |-> st.raised])

\* for item in plan: if src.exists(): src.rename(dst); rotated.append(...)
RECURSIVE RotateLoop(_, _, _, _, _)
RotateLoop(plan, outcomes, os, i, st) ==
    IF i > Len(plan) THEN st
    ELSE IF outcomes[i] = "vanished" /\ Exists(st.dir, plan[i].from)
    THEN RotateLoop(plan, outcomes, os, i + 1,
                    [st EXCEPT !.dir = ExternalRotation(st.dir, plan[i].from)])
    ELSE IF ~Exists(st.dir, plan[i].from)
    THEN RotateLoop(plan, outcomes, os, i + 1, st)
    ELSE LET r == Rename(st.dir, plan[i].from, plan[i].to, outcomes[i], os)
         IN RotateLoop(plan, outcomes, os, i + 1,
                       IF r.raised
                       THEN [st EXCEPT !.raised = TRUE]
                       ELSE [dir |-> r.dir, rotated |-> Append(st.rotated, plan[i]),
                             raised |-> st.raised])

\* A clear_logs that renames whatever the mode.
clear_logs_IgnoresMode(dir, select, mode, ts, outcomes, os) ==
    LET plan == RotationPlan(dir, ToRotate(select), ts)
        st == RotateLoop(plan,
                         IF mode = "dry_run" THEN [k \in 1..Len(plan) |-> "renamed"] ELSE outcomes,
                         os, 1, [dir |-> dir, rotated |-> <<>>, raised |-> FALSE])
    IN IF mode = "dry_run"
       THEN [dir |-> st.dir, out |-> [kind |-> "will_rotate", items |-> plan], raised |-> FALSE]
       ELSE [dir |-> st.dir, out |-> [kind |-> "rotated", items |-> st.rotated],
             raised |-> st.raised]

\* The clear_logs branch of the handler: the directory afterwards, the
\* response, and whether a rename raised.
clear_logs(dir, select, mode, ts, outcomes, os) ==
    LET plan == RotationPlan(dir, ToRotate(select), ts)
    IN IF mode = "dry_run"
       THEN [dir |-> dir, out |-> [kind |-> "will_rotate", items |-> plan], raised |-> FALSE]
       ELSE LET st == RotateLoop(plan, outcomes, os, 1,
                                 [dir |-> dir, rotated |-> <<>>, raised |-> FALSE])
            IN [dir |-> st.dir, out |-> [kind |-> "rotated", items |-> st.rotated],
                raised |-> st.raised]

NoSmCall == [select |-> "none", mode |-> "none"]
NoSmOut == [kind |-> "none", items |-> <<>>]
EmptyDir == [n \in FileNames |-> Absent]

Log_Init ==
    /\ platform \in {"posix", "windows"}
    /\ clock = 0
    /\ fs = EmptyDir
    /\ next_line = 0
    /\ sm_in = NoSmCall
    /\ sm_out = NoSmOut
    /\ sm_raised = FALSE
    /\ sm_env = <<>>
    /\ sm_quiet = FALSE

\* Half a second passes.
Clock_Tick ==
    /\ clock < MaxClock
    /\ clock' = clock + 1
    /\ UNCHANGED <<platform, fs, next_line, sm_in, sm_out, sm_raised, sm_env, sm_quiet>>
    /\ UNCHANGED <<mbpVars, inspVars, preVars, lgVars, epVars, suVars, thVars>>

\* The logging subsystem appends a line to a log file, creating the file
\* when it is not there.
Log_Append ==
    /\ next_line < MaxLines
    /\ \E log \in Logs :
         fs' = [fs EXCEPT ![LogFile(log)] =
                   [present |-> TRUE, lines |-> Append(@.lines, next_line + 1)]]
    /\ next_line' = next_line + 1
    /\ sm_quiet' = FALSE
    /\ UNCHANGED <<platform, clock, sm_in, sm_out, sm_raised, sm_env>>
    /\ UNCHANGED <<mbpVars, inspVars, preVars, lgVars, epVars, suVars, thVars>>

\* A client calls server_manager(action="clear_logs") and the handler runs to
\* its return.
Sm_ClearLogs ==
    /\ \E select \in Selects, mode \in SmModes :
         \E outcomes \in (IF mode = "apply"
                          THEN [1..Len(RotationPlan(fs, ToRotate(select), Stamp(clock)))
                                  -> ItemFates]
                          ELSE {<<>>}) :
           LET r == clear_logs(fs, select, mode, Stamp(clock), outcomes, platform)
           IN /\ fs' = r.dir
              /\ sm_in' = [select |-> select, mode |-> mode]
              /\ sm_out' = r.out
              /\ sm_raised' = r.raised
              /\ sm_env' = outcomes
              /\ sm_quiet' = TRUE
    /\ UNCHANGED <<platform, clock, next_line>>
    /\ UNCHANGED <<mbpVars, inspVars, preVars, lgVars, epVars, suVars, thVars>>

Log_Next == Clock_Tick \/ Log_Append \/ Sm_ClearLogs

\* The lines ever written to the logs that are on disk, under any name.
LinesOnDisk == UNION {SeqToSet(fs[n].lines) : n \in {m \in FileNames : Exists(fs, m)}}

\* The lines ever written that are on disk no more.
LinesLost == (1..next_line) \ LinesOnDisk

\* A step of clear_logs: neither the clock nor the logging subsystem moved.
ClearLogsStep == clock' = clock /\ next_line' = next_line

\* The step is a clear_logs(apply) that follows a clear_logs(apply) of the
\* same selection whose renames all went through, with nothing logged between.
SecondApplyStep ==
    /\ ClearLogsStep
    /\ sm_quiet /\ sm_in.mode = "apply" /\ ~sm_raised
    /\ sm_in' = sm_in

\* C9: log rotation never loses log data: whatever the interleaving of
\* clear_logs calls with the logging subsystem re-creating and appending to the
\* log files, every line ever written is on disk, in the log or in one of its
\* backups; and a clear_logs(apply) right after another one rotates nothing.
\* The code names a backup after the second of the call, and on POSIX a rename
\* replaces the backup of the same second: the lines of the first backup are lost.
C9_NoLogDataLost ==
    /\ [](LinesLost = {})
    /\ [][SecondApplyStep => sm_out'.items = <<>> /\ ~sm_raised']_vars

\* C10: clear_logs with mode "dry_run" leaves the logs directory as it found
\* it, and answers under will_rotate exactly the selected log files that exist,
\* each with the backup name of the current second.
C10_DryRunLeavesFilesAlone ==
    [][ClearLogsStep /\ sm_in'.mode = "dry_run"
       => /\ fs' = fs
          /\ sm_out'.kind = "will_rotate"
          /\ Len(sm_out'.items) = Cardinality({l \in Logs : l \in SeqToSet(ToRotate(sm_in'.select))
                                                          /\ Exists(fs, LogFile(l))})
          /\ \A k \in 1..Len(sm_out'.items) :
               /\ sm_out'.items[k].from.log \in SeqToSet(ToRotate(sm_in'.select))
               /\ Exists(fs, sm_out'.items[k].from)
               /\ sm_out'.items[k].from = LogFile(sm_out'.items[k].from.log)
               /\ sm_out'.items[k].to = BackupFile(sm_out'.items[k].from.log, Stamp(clock))
          /\ \A j, k \in 1..Len(sm_out'.items) :
               j < k => sm_out'.items[j] # sm_out'.items[k]]_vars

\* C10 witness: a dry run over both logs, both on disk with lines in them, has
\* just answered with the two planned renames, after an earlier rotation left a
\* backup behind.
C10_Witness ==
    /\ sm_in = [select |-> "both", mode |-> "dry_run"]
    /\ sm_quiet
    /\ sm_out.kind = "will_rotate"
    /\ Len(sm_out.items) = 2
    /\ \A l \in Logs : Exists(fs, LogFile(l)) /\ fs[LogFile(l)].lines # <<>>
    /\ \E n \in FileNames : n.backup /\ Exists(fs, n)

\* The step moved the file `item.from` to `item.to`: the lines it held are
\* now under the backup name and the log's own name is free.
Performed(item) ==
    /\ Exists(fs, item.from)
    /\ ~Exists(fs', item.from)
    /\ fs'[item.to] = fs[item.from]

\* The rename of the k-th planned file can go through: the file is still
\* there and the operating system does not refuse.
CanRename(plan, k) ==
    /\ sm_env'[k] = "renamed"
    /\ ~(platform = "windows" /\ Exists(fs, plan[k].to))

\* C11: clear_logs with mode "apply": when the rename of a planned file fails
\* or the file has disappeared since planning, the other planned renames are
\* still made, the call answers with its normal response, and the rotated
\* list holds exactly the renames that were made, in plan order.
C11_ApplyToleratesFailedRenames ==
    [][ClearLogsStep /\ sm_in'.mode = "apply"
       => LET plan == RotationPlan(fs, ToRotate(sm_in'.select), Stamp(clock))
          IN /\ sm_out'.kind = "rotated"
             /\ \A k \in 1..Len(plan) : CanRename(plan, k) => Performed(plan[k])
             /\ sm_out'.items = SelectSeq(plan, LAMBDA item : Performed(item))]_vars

\* C11 witness: an apply over both logs where the rename of the first was
\* refused and the second went through: one rename reported, the server log
\* still under its own name, the error log under its backup name.
C11_Witness ==
    /\ sm_in = [select |-> "both", mode |-> "apply"]
    /\ sm_quiet
    /\ sm_env = <<"oserror", "renamed">>
    /\ sm_raised
    /\ sm_out.kind = "rotated"
    /\ Len(sm_out.items) = 1 /\ sm_out.items[1].from = LogFile("error")
    /\ Exists(fs, LogFile("server")) /\ ~Exists(fs, LogFile("error"))
    /\ Exists(fs, sm_out.items[1].to)

-----------------------------------------------------------------------------
(***************************************************************************)
(* server_manager action="logs" (tools/server.py, the handler the master   *)
(* tools register).                                                        *)
(***************************************************************************)

\* datetime.min, the earliest instant there is.
DatetimeMin == 0

Instants == 1..MaxInstant

\* A log line: `stamp` is the instant its first 19 characters spell, 0 when
\* they spell none; `hit` is whether the line contains the `contains` text.
LogLines == [stamp : {0} \cup Instants, hit : BOOLEAN]

\* The two log files as a call finds them: a file is absent or holds lines.
LogFiles ==
    {f \in [Logs -> [present : BOOLEAN, lines : SeqsUpTo(LogLines, MaxLogLen)]] :
        /\ \A l \in Logs : ~f[l].present => f[l].lines = <<>>
        /\ Len(f["server"].lines) + Len(f["error"].lines) <= MaxLogLen}

\* The `since` argument: absent, a text that is no ISO instant, an instant
\* without UTC offset, or an instant with one.
SinceArgs ==
    {[kind |-> "absent", at |-> 0], [kind |-> "bad", at |-> 0]}
    \cup [kind : {"naive", "aware"}, at : {DatetimeMin} \cup Instants]

LgArgs == [type : Selects, lines : 0..MaxLogLen, contains : BOOLEAN, since : SinceArgs]

\* _parse_line_ts: datetime.strptime(line[:19], "%Y-%m-%d %H:%M:%S"), None on failure.
ParseLineTs(line) == [ok |-> line.stamp # 0, at |-> line.stamp]

\* since_dt: datetime.fromisoformat(since), None when absent or not parseable.
SinceDt(since) == [ok |-> since.kind \in {"naive", "aware"}, aware |-> since.kind = "aware",
                   at |-> since.at]

\* lst[-n:] for n >= 1
LastN(q, n) == IF Len(q) <= n THEN q ELSE SubSeq(q, Len(q) - n + 1, Len(q))

\* max(1, lines)
Max1(n) == IF n < 1 THEN 1 ELSE n

\* (_parse_line_ts(ln) or datetime.min) >= since_dt
SinceKeeps(line, since_dt) ==
    LET ts == ParseLineTs(line)
    IN (IF ts.ok THEN ts.at ELSE DatetimeMin) >= since_dt.at

\* One file of the loop: the last max(1, lines) lines are read, then the
\* contains filter, then the since filter. Comparing a timestamp with an
\* instant that carries a UTC offset raises TypeError. [lines, raised]
ReadFile(file, args) ==
    LET since_dt == SinceDt(args.since)
        lines_buf == LastN(file.lines, Max1(args.lines))
        matched == IF args.contains THEN SelectSeq(lines_buf, LAMBDA ln : ln.hit)
                   ELSE lines_buf
    IN IF since_dt.ok /\ since_dt.aware /\ matched # <<>>
       THEN [lines |-> <<>>, raised |-> TRUE]
       ELSE [lines |-> IF since_dt.ok
                       THEN SelectSeq(matched, LAMBDA ln : SinceKeeps(ln, since_dt))
                       ELSE matched,
             raised |-> FALSE]

\* targets
Targets(type) == ToRotate(type)

\* for p in targets: if p.exists(): ... content_parts.append(...)
RECURSIVE ReadTargets(_, _, _, _)
ReadTargets(targets, files, args, st) ==
    IF targets = <<>> THEN st
    ELSE IF ~files[Head(targets)].present
    THEN ReadTargets(Tail(targets), files, args, st)
    ELSE LET r == ReadFile(files[Head(targets)], args)
         IN IF r.raised THEN [st EXCEPT !.raised = TRUE]
            ELSE ReadTargets(Tail(targets), files, args,
                             [st EXCEPT !.content_parts = Append(@, [log |-> Head(targets),
                                                                     lines |-> r.lines])])

\* The logs branch of the handler: the response. `truncated` is set to False
\* before the loop and never again.
server_logs(files, args) ==
    LET st == ReadTargets(Targets(args.type), files, args,
                          [content_parts |-> <<>>, raised |-> FALSE])
    IN IF st.raised
       THEN [kind |-> "error", truncated |-> FALSE, content_parts |-> <<>>]
       ELSE [kind |-> "logs", truncated |-> FALSE, content_parts |-> st.content_parts]

NoLgArgs == [type |-> "none", lines |-> 0, contains |-> FALSE,
             since |-> [kind |-> "absent", at |-> 0]]
NoLgFiles == [l \in Logs |-> [present |-> FALSE, lines |-> <<>>]]
NoLgOut == [kind |-> "none", truncated |-> FALSE, content_parts |-> <<>>]

Lg_Init ==
    /\ lg_pc = "idle"
    /\ lg_in = NoLgArgs
    /\ lg_files = NoLgFiles
    /\ lg_out = NoLgOut

\* A client calls server_manager(action="logs") and the handler runs to its return.
Lg_Call ==
    /\ lg_pc = "idle"
    /\ \E args \in LgArgs, files \in LogFiles :
         /\ lg_in' = args
         /\ lg_files' = files
         /\ lg_out' = server_logs(files, args)
    /\ lg_pc' = "returned"
    /\ UNCHANGED <<mbpVars, inspVars, preVars, logVars, epVars, suVars, thVars>>

\* The response is handed to the protocol runtime.
Lg_Return ==
    /\ lg_pc = "returned"
    /\ lg_pc' = "idle"
    /\ lg_in' = NoLgArgs
    /\ lg_files' = NoLgFiles
    /\ lg_out' = NoLgOut
    /\ UNCHANGED <<mbpVars, inspVars, preVars, logVars, epVars, suVars, thVars>>

Lg_Next == Lg_Call \/ Lg_Return

(* Claims about server_manager action="logs".                              *)

LgReturned == lg_pc = "returned"

\* The selected log files that exist, in the order of the response.
ReadLogs == SelectSeq(Targets(lg_in.type), LAMBDA l : lg_files[l].present)

\* The lines of a whole file that pass the handler's contains and since tests.
WholeFileFiltered(file, args) ==
    LET matched == IF args.contains THEN SelectSeq(file.lines, LAMBDA ln : ln.hit)
                   ELSE file.lines
    IN IF SinceDt(args.since).ok
       THEN SelectSeq(matched, LAMBDA ln : SinceKeeps(ln, SinceDt(args.since)))
       ELSE matched

\* C12: action "logs" filters the whole selected file by contains and since
\* first and only then keeps the last `lines` of the filtered lines, per file;
\* truncated is true exactly when some file had more filtered lines than
\* `lines`. (Stated for lines >= 1 and a `since` without UTC offset.)
C12_FilterThenTruncate ==
    LgReturned /\ lg_in.lines >= 1 /\ lg_in.since.kind # "aware" =>
        /\ lg_out.kind = "logs"
        /\ Len(lg_out.content_parts) = Len(ReadLogs)
        /\ \A k \in 1..Len(ReadLogs) :
             /\ lg_out.content_parts[k].log = ReadLogs[k]
             /\ lg_out.content_parts[k].lines =
                    LastN(WholeFileFiltered(lg_files[ReadLogs[k]], lg_in), lg_in.lines)
        /\ lg_out.truncated =
               (\E k \in 1..Len(ReadLogs) :
                    Len(WholeFileFiltered(lg_files[ReadLogs[k]], lg_in)) > lg_in.lines)

\* What the `since` filter is to do with a line: keep it when its timestamp
\* cannot be parsed or is not before `since`.
PassesSince(line, since) == line.stamp = 0 \/ line.stamp >= since.at

\* C13: with a parseable `since`, action "logs" keeps every line whose leading
\* timestamp cannot be parsed and every line stamped at or after `since`, and
\* drops only the lines stamped before it. (Stated for calls without contains
\* whose files are no longer than `lines`, so that nothing else drops a line.)
C13_SinceKeepsUnparsedLines ==
    /\ LgReturned
    /\ lg_in.since.kind \in {"naive", "aware"}
    /\ ~lg_in.contains
    /\ \A l \in Logs : Len(lg_files[l].lines) <= Max1(lg_in.lines)
    => /\ lg_out.kind = "logs"
       /\ Len(lg_out.content_parts) = Len(ReadLogs)
       /\ \A k \in 1..Len(ReadLogs) :
            lg_out.content_parts[k].lines =
                SelectSeq(lg_files[ReadLogs[k]].lines, LAMBDA ln : PassesSince(ln, lg_in.since))

-----------------------------------------------------------------------------
(***************************************************************************)
(* ErrorParser (utils/error_parser.py): parse_error_file and               *)
(* analyze_root_cause.                                                     *)
(***************************************************************************)

Severities == {"Warning", "Severe", "Fatal"}

\* What a line of a .err file spells once its leading blanks are set aside:
\* nothing, "Program Version...", "** <Severity> ** <msg>", "** ~~~ ** <text>",
\* five or more asterisks and text, or anything else.
LineKinds == {"blank", "version", "context", "summary", "other"} \cup Severities

\* A line: what it spells, whether blanks precede it, and, for a severity
\* line, whether its message contains "invalid Zone Name".
ErrLines ==
    [kind : Severities, indent : BOOLEAN, zone : BOOLEAN]
    \cup [kind : {"context", "summary"}, indent : BOOLEAN, zone : {FALSE}]
    \cup [kind : {"blank", "version", "other"}, indent : {FALSE}, zone : {FALSE}]

\* The .err file: missing, or its lines.
ErrFiles ==
    {[exists |-> FALSE, lines |-> <<>>]}
    \cup {[exists |-> TRUE, lines |-> q] : q \in SeqsUpTo(ErrLines, MaxErrLines)}

\* line.rstrip() is empty
IsEmpty(line) == line.kind = "blank"

\* self.error_patterns[name].match(line): re.match anchors the pattern at the
\* first character, and every pattern starts with an asterisk.
Matches(name, line) == line.kind = name /\ ~line.indent

\* line_num == 1 and line.startswith("Program Version")
IsVersion(line_num, line) == line_num = 1 /\ line.kind = "version" /\ ~line.indent

\* match.group(1) of a severity line: the message, told apart by its line.
Message(line_num, line) == [at |-> line_num, zone |-> line.zone]

\* EnergyPlusError(severity=..., message=..., line_number=line_num)
EnergyPlusError(severity, line_num, line) ==
    [severity |-> severity, message |-> Message(line_num, line), context |-> <<>>,
     line_number |-> line_num]

NoError == [severity |-> "none", message |-> [at |-> 0, zone |-> FALSE], context |-> <<>>,
            line_number |-> 0]

Bucket(severity) ==
    CASE severity = "Warning" -> "warnings"
      [] severity = "Severe" -> "severe_errors"
      [] severity = "Fatal" -> "fatal_errors"

\* _store_error
store_error(errors, error) ==
    IF error.severity \in Severities
    THEN [errors EXCEPT ![Bucket(error.severity)] = Append(@, error)]
    ELSE errors

\* if current_error: self._store_error(errors, current_error)
Flush(st) ==
    IF st.current_error # NoError THEN store_error(st.errors, st.current_error)
    ELSE st.errors

\* One turn of the scanning loop.
ScanLine(st, line_num, line) ==
    IF IsEmpty(line) \/ IsVersion(line_num, line) THEN st
    ELSE IF \E sev \in Severities : Matches(sev, line)
    THEN [errors |-> Flush(st),
          current_error |-> EnergyPlusError(line.kind, line_num, line)]
    ELSE IF Matches("context", line) /\ st.current_error # NoError
    THEN [st EXCEPT !.current_error.context = Append(@, line_num)]
    ELSE IF Matches("summary", line)
    THEN [errors |-> Flush(st), current_error |-> NoError]
    ELSE st

\* for line_num, line in enumerate(lines, 1): ...
RECURSIVE Scan(_, _, _)
Scan(lines, line_num, st) ==
    IF line_num > Len(lines) THEN st
    ELSE Scan(lines, line_num + 1, ScanLine(st, line_num, lines[line_num]))

NoErrors == [warnings |-> <<>>, severe_errors |-> <<>>, fatal_errors |-> <<>>]

\* parse_error_file
parse_error_file(file) ==
    IF ~file.exists
    THEN [exists |-> FALSE, errors |-> NoErrors,
          counts |-> [warnings |-> 0, severe |-> 0, fatal |-> 0]]
    ELSE LET st == Scan(file.lines, 1, [errors |-> NoErrors, current_error |-> NoError])
             errors == Flush(st)
         IN [exists |-> TRUE, errors |-> errors,
             counts |-> [warnings |-> Len(errors["warnings"]),
                         severe |-> Len(errors["severe_errors"]),
                         fatal |-> Len(errors["fatal_errors"])]]

NoIssue == [present |-> FALSE, message |-> [at |-> 0, zone |-> FALSE]]

\* A choice of primary issue that looks at the severe errors first.
PrimaryIssue_SevereFirst(parsed) ==
    IF parsed.errors["severe_errors"] # <<>>
    THEN [present |-> TRUE, message |-> parsed.errors["severe_errors"][1].message]
    ELSE IF parsed.errors["fatal_errors"] # <<>>
    THEN [present |-> TRUE, message |-> parsed.errors["fatal_errors"][1].message]
    ELSE NoIssue

\* if parsed_errors.get("fatal_errors"): ... elif parsed_errors.get("severe_errors"): ...
PrimaryIssue(parsed) ==
    IF parsed.errors["fatal_errors"] # <<>>
    THEN [present |-> TRUE, message |-> parsed.errors["fatal_errors"][1].message]
    ELSE IF parsed.errors["severe_errors"] # <<>>
    THEN [present |-> TRUE, message |-> parsed.errors["severe_errors"][1].message]
    ELSE NoIssue

\* "invalid Zone Name" in e["message"]
HasZoneText(e) == e.message.zone

\* A pattern search that goes through the warnings as well.
ZonePatterns_WithWarnings(parsed) ==
    LET all_errors == parsed.errors["warnings"] \o parsed.errors["severe_errors"]
                      \o parsed.errors["fatal_errors"]
        zone_errors == SelectSeq(all_errors, HasZoneText)
    IN IF zone_errors # <<>>
       THEN <<[type |-> "zone_reference", count |-> Len(zone_errors)]>>
       ELSE <<>>

\* all_errors = severe_errors + fatal_errors; zone_errors; patterns.append(...)
ZonePatterns(parsed) ==
    LET all_errors == parsed.errors["severe_errors"] \o parsed.errors["fatal_errors"]
        zone_errors == SelectSeq(all_errors, HasZoneText)
    IN IF zone_errors # <<>>
       THEN <<[type |-> "zone_reference", count |-> Len(zone_errors)]>>
       ELSE <<>>

\* analyze_root_cause
analyze_root_cause(parsed) ==
    [primary_issue |-> PrimaryIssue(parsed), patterns |-> ZonePatterns(parsed)]

NoErrFile == [exists |-> FALSE, lines |-> <<>>]
NoParsed == [exists |-> FALSE, errors |-> NoErrors,
             counts |-> [warnings |-> 0, severe |-> 0, fatal |-> 0]]
NoAnalysis == [primary_issue |-> NoIssue, patterns |-> <<>>]

Ep_Init ==
    /\ ep_pc = "idle"
    /\ ep_file = NoErrFile
    /\ ep_parsed = NoParsed
    /\ ep_analysis = NoAnalysis

\* A caller hands a .err file to parse_error_file.
Ep_Parse ==
    /\ ep_pc = "idle"
    /\ \E file \in ErrFiles :
         /\ ep_file' = file
         /\ ep_parsed' = parse_error_file(file)
    /\ ep_pc' = "parsed"
    /\ UNCHANGED ep_analysis
    /\ UNCHANGED <<mbpVars, inspVars, preVars, logVars, lgVars, suVars, thVars>>

\* The caller hands the parsed result to analyze_root_cause.
Ep_Analyze ==
    /\ ep_pc = "parsed"
    /\ ep_analysis' = analyze_root_cause(ep_parsed)
    /\ ep_pc' = "analyzed"
    /\ UNCHANGED <<ep_file, ep_parsed>>
    /\ UNCHANGED <<mbpVars, inspVars, preVars, logVars, lgVars, suVars, thVars>>

\* The caller is done with the results.
Ep_Return ==
    /\ ep_pc = "analyzed"
    /\ ep_pc' = "idle"
    /\ ep_file' = NoErrFile
    /\ ep_parsed' = NoParsed
    /\ ep_analysis' = NoAnalysis
    /\ UNCHANGED <<mbpVars, inspVars, preVars, logVars, lgVars, suVars, thVars>>

Ep_Next == Ep_Parse \/ Ep_Analyze \/ Ep_Return

(* Claims about the error parser.                                          *)

\* The positions of the file's lines that spell a severity line of `sev`,
\* with or without leading blanks.
MarkerLines(sev) == {k \in 1..Len(ep_file.lines) : ep_file.lines[k].kind = sev}

AllMarkerLines == UNION {MarkerLines(sev) : sev \in Severities}

\* The lines that end the context of the error opened at line k.
ClosesAfter(k) ==
    {j \in (k + 1)..Len(ep_file.lines) :
        ep_file.lines[j].kind \in Severities \cup {"summary"}}

\* The context lines that follow line k before the next severity line,
\* summary line or end of file, in order.
ContextAfter(k) ==
    LET stop == IF ClosesAfter(k) = {} THEN Len(ep_file.lines) + 1
                ELSE CHOOSE j \in ClosesAfter(k) : \A i \in ClosesAfter(k) : j <= i
    IN SelectSeq([j \in 1..Len(ep_file.lines) |-> j],
                 LAMBDA j : k < j /\ j < stop /\ ep_file.lines[j].kind = "context")

\* The record of the bucket that was made from line k, if any.
RecordsOf(bucket, k) ==
    {i \in 1..Len(ep_parsed.errors[bucket]) : ep_parsed.errors[bucket][i].line_number = k}

\* C14: parse_error_file puts each severity line into the bucket of its own
\* severity as one record whose context holds exactly the context lines that
\* follow it before the next severity line, summary line or end of file, in
\* order; and counts equals the lengths of the three lists.
C14_BucketsBySeverity ==
    ep_pc = "parsed" /\ ep_file.exists =>
        /\ \A sev \in Severities : \A k \in MarkerLines(sev) :
             /\ Cardinality(RecordsOf(Bucket(sev), k)) = 1
             /\ \A i \in RecordsOf(Bucket(sev), k) :
                  /\ ep_parsed.errors[Bucket(sev)][i].severity = sev
                  /\ ep_parsed.errors[Bucket(sev)][i].context = ContextAfter(k)
             /\ \A other \in Severities \ {sev} : RecordsOf(Bucket(other), k) = {}
        /\ ep_parsed.counts = [warnings |-> Len(ep_parsed.errors["warnings"]),
                               severe |-> Len(ep_parsed.errors["severe_errors"]),
                               fatal |-> Len(ep_parsed.errors["fatal_errors"])]

\* C15: analyze_root_cause sets primary_issue to the message of the first
\* fatal error when there is one, otherwise to the message of the first severe
\* error when there is one, otherwise leaves it absent; a warning is never the
\* primary issue.
C15_PrimaryIssue ==
    ep_pc = "analyzed" =>
        LET fatal == ep_parsed.errors["fatal_errors"]
            severe == ep_parsed.errors["severe_errors"]
            warns == ep_parsed.errors["warnings"]
        IN /\ fatal # <<>> => ep_analysis.primary_issue = [present |-> TRUE, message |-> fatal[1].message]
           /\ fatal = <<>> /\ severe # <<>> =>
                ep_analysis.primary_issue = [present |-> TRUE, message |-> severe[1].message]
           /\ fatal = <<>> /\ severe = <<>> => ~ep_analysis.primary_issue.present
           /\ \A i \in 1..Len(warns) :
                ep_analysis.primary_issue.present =>
                    ep_analysis.primary_issue.message # warns[i].message

\* C15 witness: a file with a warning, then a severe error, then a fatal one:
\* the primary issue is the fatal error's message, the last line of the file.
C15_Witness ==
    /\ ep_pc = "analyzed"
    /\ Len(ep_parsed.errors["warnings"]) = 1
    /\ Len(ep_parsed.errors["severe_errors"]) = 1
    /\ Len(ep_parsed.errors["fatal_errors"]) = 1
    /\ ep_parsed.errors["severe_errors"][1].line_number < ep_parsed.errors["fatal_errors"][1].line_number
    /\ ep_analysis.primary_issue.present
    /\ ep_analysis.primary_issue.message = ep_parsed.errors["fatal_errors"][1].message

\* The severe and fatal errors whose message contains "invalid Zone Name".
ZoneErrorCount ==
    Cardinality({i \in 1..Len(ep_parsed.errors["severe_errors"]) :
                    ep_parsed.errors["severe_errors"][i].message.zone})
    + Cardinality({i \in 1..Len(ep_parsed.errors["fatal_errors"]) :
                    ep_parsed.errors["fatal_errors"][i].message.zone})

ZoneEntries ==
    {i \in 1..Len(ep_analysis.patterns) : ep_analysis.patterns[i].type = "zone_reference"}

\* C16: analyze_root_cause emits a patterns entry of type "zone_reference"
\* exactly when a severe or fatal message contains "invalid Zone Name", and
\* its count is the number of such severe and fatal messages; warnings are
\* not counted.
C16_ZoneReferencePattern ==
    ep_pc = "analyzed" =>
        /\ (ZoneEntries # {}) = (ZoneErrorCount > 0)
        /\ Cardinality(ZoneEntries) <= 1
        /\ \A i \in ZoneEntries : ep_analysis.patterns[i].count = ZoneErrorCount

\* C16 witness: two severe errors and a warning all name an invalid zone: one
\* entry with count 2.
C16_Witness ==
    /\ ep_pc = "analyzed"
    /\ Len(ep_parsed.errors["severe_errors"]) = 2
    /\ \A i \in 1..2 : ep_parsed.errors["severe_errors"][i].message.zone
    /\ Len(ep_parsed.errors["warnings"]) = 1
    /\ ep_parsed.errors["warnings"][1].message.zone
    /\ ep_analysis.patterns = <<[type |-> "zone_reference", count |-> 2]>>


\* The file with the blanks before its lines taken away.
Unindented(file) ==
    [file EXCEPT !.lines = [k \in 1..Len(file.lines) |-> [file.lines[k] EXCEPT !.indent = FALSE]]]

\* C25: a severity line, a context line and a summary line are recognised also
\* when blanks precede the asterisks: the file parses as it would without them.
C25_IndentedLinesRecognised ==
    ep_pc = "parsed" /\ ep_file.exists =>
        /\ ep_parsed = parse_error_file(Unindented(ep_file))
        /\ \A sev \in Severities : \A k \in MarkerLines(sev) :
             ep_file.lines[k].indent => RecordsOf(Bucket(sev), k) # {}

\* The severity and summary lines before line k.
OpensOrClosesBefore(k) ==
    {j \in 1..(k - 1) : ep_file.lines[j].kind \in Severities \cup {"summary"}}

\* The severity line whose error is open when line k is read, or 0 when none is.
OpenAt(k) ==
    IF OpensOrClosesBefore(k) = {} THEN 0
    ELSE LET last == CHOOSE j \in OpensOrClosesBefore(k) : \A i \in OpensOrClosesBefore(k) : i <= j
         IN IF ep_file.lines[last].kind = "summary" THEN 0 ELSE last

Buckets == {"warnings", "severe_errors", "fatal_errors"}

\* The records of the result, as [bucket, position in the bucket].
AllRecords == {<<b, i>> \in Buckets \X (1..MaxErrLines + 1) : i <= Len(ep_parsed.errors[b])}

RecordAt(r) == ep_parsed.errors[r[1]][r[2]]

InContext(k, r) == \E c \in 1..Len(RecordAt(r).context) : RecordAt(r).context[c] = k

\* C26: a summary line closes the open error, which is stored, and leaves none
\* open; a context line read while no error is open is attached to no record,
\* one read while an error is open is attached to that error only; blank lines
\* are attached to nothing and open nothing.
C26_SummaryClosesOpenError ==
    ep_pc = "parsed" /\ ep_file.exists =>
        \A k \in 1..Len(ep_file.lines) :
            /\ ep_file.lines[k].kind = "context" =>
                 \A r \in AllRecords : InContext(k, r) <=> (RecordAt(r).line_number = OpenAt(k))
            /\ ep_file.lines[k].kind = "summary" /\ OpenAt(k) # 0 =>
                 \E r \in AllRecords : RecordAt(r).line_number = OpenAt(k)
            /\ ep_file.lines[k].kind = "blank" =>
                 \A r \in AllRecords : ~InContext(k, r) /\ RecordAt(r).line_number # k

\* C27: one record per severity line, none lost and none twice: the counts add
\* up to the number of severity lines, every record carries the position of
\* its line, and the positions grow along each bucket.
C27_OneRecordPerMarkerLine ==
    ep_pc = "parsed" /\ ep_file.exists =>
        /\ ep_parsed.counts.warnings + ep_parsed.counts.severe + ep_parsed.counts.fatal
             = Cardinality(AllMarkerLines)
        /\ \A sev \in Severities : \A k \in MarkerLines(sev) :
             Cardinality({r \in AllRecords : RecordAt(r).line_number = k}) = 1
        /\ \A r \in AllRecords : RecordAt(r).line_number \in AllMarkerLines
        /\ \A b \in Buckets : \A i \in 1..(Len(ep_parsed.errors[b]) - 1) :
             ep_parsed.errors[b][i].line_number < ep_parsed.errors[b][i + 1].line_number

-----------------------------------------------------------------------------
(***************************************************************************)
(* Startup of server.py: the tool surface configuration and the            *)
(* registration of the tools.                                              *)
(***************************************************************************)

\* The legacy wrapper groups, one EXPOSE_* flag and one expose_*_tool
\* decorator each.
WrapperGroups ==
    {"inspect", "output", "summary", "modify", "server", "hvac", "file", "sim", "model", "post"}

\* The handlers of server.py that carry each group's decorator (some of them).
WrapperTools(group) ==
    CASE group = "inspect" -> {"inspect_schedules", "inspect_people", "list_zones"}
      [] group = "output" -> {"get_output_variables", "get_output_meters"}
      [] group = "summary" -> {"get_model_summary"}
      [] group = "modify" -> {"modify_people", "modify_lights", "add_output_variables"}
      [] group = "server" -> {"get_server_configuration", "get_server_status", "clear_logs"}
      [] group = "hvac" -> {"discover_hvac_loops", "get_loop_topology", "visualize_loop_diagram"}
      [] group = "file" -> {"copy_file", "list_available_files"}
      [] group = "sim" -> {"modify_simulation_control", "modify_run_period", "run_simulation",
                           "run_energyplus_simulation"}
      [] group = "model" -> {"load_idf_model", "validate_idf"}
      [] group = "post" -> {"create_interactive_plot"}

\* The tools tools/__init__.py register_all registers.
MasterTools ==
    {"inspect_model", "model_preflight", "get_outputs", "modify_basic_parameters",
     "simulation_manager", "post_processing", "file_utils", "hvac_loop_inspect",
     "server_manager"}

Domains == {"envelope", "internal_loads", "hvac", "outputs"}

DomainTool(domain) ==
    CASE domain = "envelope" -> "envelope_manager"
      [] domain = "internal_loads" -> "internal_load_manager"
      [] domain = "hvac" -> "hvac_manager"
      [] domain = "outputs" -> "outputs_manager"

\* tool_surface.mode: absent, one of the three modes (in any letter case),
\* another text, or a value that is not a text (a number, true).
YamlModes == {None, "masters", "domains", "hybrid", "Hybrid", "other", "nonstring"}

\* tool_surface.enable_wrappers: absent, a boolean, or another value.
YamlWrappers == {"absent", "true", "false", "nonbool"}

\* tool_surface.domains.<domain>: absent, true or false.
YamlDomain == {"absent", "true", "false"}

Yamls == [mode : YamlModes, enable_wrappers : YamlWrappers, domains : [Domains -> YamlDomain]]

\* The value of one environment variable: unset, or its text.
EnvValues == {"unset", "Yes", "false"}

\* The wrapper flags of the environment: the groups whose variable is "true".
EnvWrappers == {{}, {"inspect"}, {"sim"}, WrapperGroups}

Envs == [masters : EnvValues, domain_managers : EnvValues, wrappers : EnvWrappers]

\* os.getenv(name, default).lower() in ("1", "true", "yes")
EnvFlag(value, default) ==
    LET text == IF value = "unset" THEN default ELSE value
        lowered == IF text = "Yes" THEN "yes" ELSE text
    IN lowered \in {"1", "true", "yes"}

\* _load_tool_surface_config: cfg holds mode, enable_wrappers and the domains
\* envelope, internal_loads and hvac; no other key of the file is copied.
load_tool_surface_config(yaml) ==
    [mode |-> yaml.mode, enable_wrappers |-> yaml.enable_wrappers,
     domains |-> [d \in {"envelope", "internal_loads", "hvac"} |-> yaml.domains[d]]]

\* (tool_surface_cfg.get("mode") or "").lower(): a value without .lower raises.
ModeRaises(cfg) == cfg.mode = "nonstring"

ModeLower(cfg) ==
    IF cfg.mode = None THEN ""
    ELSE IF cfg.mode = "Hybrid" THEN "hybrid"
    ELSE cfg.mode

\* The flags after lines 60-73 and _apply_tool_surface_overrides; the sim flag
\* is read from the environment after the overrides (line 101).
apply_tool_surface_overrides(cfg, env) ==
    LET mode == ModeLower(cfg)
        by_mode == mode \in {"masters", "domains", "hybrid"}
        ew == cfg.enable_wrappers
    IN [masters |-> IF by_mode THEN mode \in {"masters", "hybrid"}
                    ELSE EnvFlag(env.masters, "true"),
        domain_managers |-> IF by_mode THEN mode \in {"domains", "hybrid"}
                            ELSE EnvFlag(env.domain_managers, "false"),
        wrappers |-> [g \in WrapperGroups |->
                        IF g = "sim" THEN g \in env.wrappers
                        ELSE IF ew \in {"true", "false"} THEN ew = "true"
                        ELSE g \in env.wrappers]]

\* doms.get(domain) at startup: the keys cfg does not hold read as None.
DomainToggle(cfg, domain) ==
    IF domain \in DOMAIN cfg.domains THEN cfg.domains[domain] ELSE "absent"

\* The keyword arguments startup hands to domains.register_all.
DomainEnabled(cfg, domain) ==
    IF domain = "outputs" THEN DomainToggle(cfg, domain) = "true"
    ELSE DomainToggle(cfg, domain) # "false"

\* domains.register_all
register_domain_managers(cfg) == {DomainTool(d) : d \in {d \in Domains : DomainEnabled(cfg, d)}}

\* The expose_*_tool decorators: expose_sim_tool registers when its flag is
\* set, every other one returns the function unregistered.
DecoratorRegisters(group, flags) == group = "sim" /\ flags.wrappers["sim"]

\* The order in which domains.register_all goes through the domains.
DomainOrder == <<"envelope", "internal_loads", "hvac", "outputs">>

\* The order in which tools.register_all registers the master tools.
MasterOrder ==
    <<"inspect_model", "model_preflight", "get_outputs", "modify_basic_parameters",
      "simulation_manager", "post_processing", "file_utils", "hvac_loop_inspect",
      "server_manager">>

\* The simulation wrappers of server.py, from top to bottom.
SimOrder ==
    <<"modify_simulation_control", "modify_run_period", "run_simulation",
      "run_energyplus_simulation">>

\* Every call of mcp.tool()(handler) the startup makes, in order, by the
\* handler's name.
Registrations(cfg, flags) ==
    (IF flags.domain_managers
     THEN LET on == SelectSeq(DomainOrder, LAMBDA d : DomainEnabled(cfg, d))
          IN [k \in 1..Len(on) |-> DomainTool(on[k])]
     ELSE <<>>)
    \o (IF flags.masters THEN MasterOrder ELSE <<>>)
    \o <<"modify_basic_parameters">>
    \o (IF DecoratorRegisters("sim", flags) THEN SimOrder ELSE <<>>)

\* The module body of server.py from top to bottom: [crashed, flags, tools, regs].
Startup(yaml, env) ==
    LET cfg == load_tool_surface_config(yaml)
        flags == apply_tool_surface_overrides(cfg, env)
    IN IF ModeRaises(cfg)
       THEN [crashed |-> TRUE, flags |-> flags, tools |-> {}, regs |-> <<>>]
       ELSE [crashed |-> FALSE,
             regs |-> Registrations(cfg, flags),
             flags |-> [flags EXCEPT !.masters = FALSE],
             tools |-> (IF flags.domain_managers THEN register_domain_managers(cfg) ELSE {})
                       \cup (IF flags.masters THEN MasterTools ELSE {})
                       \cup {"modify_basic_parameters"}
                       \cup UNION {WrapperTools(g) :
                                     g \in {h \in WrapperGroups : DecoratorRegisters(h, flags)}}]

NoYaml == [mode |-> None, enable_wrappers |-> "absent", domains |-> [d \in Domains |-> "absent"]]
NoEnv == [masters |-> "unset", domain_managers |-> "unset", wrappers |-> {}]
NoFlags == [masters |-> FALSE, domain_managers |-> FALSE, wrappers |-> [g \in WrapperGroups |-> FALSE]]

Su_Init ==
    /\ su_pc = "down"
    /\ su_yaml = NoYaml
    /\ su_env = NoEnv
    /\ su_flags = NoFlags
    /\ su_tools = {}
    /\ su_regs = <<>>

\* The server process is started: server.py is run from top to bottom.
Su_Start ==
    /\ su_pc = "down"
    /\ \E yaml \in Yamls, env \in Envs :
         LET r == Startup(yaml, env)
         IN /\ su_yaml' = yaml
            /\ su_env' = env
            /\ su_flags' = r.flags
            /\ su_tools' = r.tools
            /\ su_regs' = r.regs
            /\ su_pc' = IF r.crashed THEN "crashed" ELSE "up"
    /\ UNCHANGED <<mbpVars, inspVars, preVars, logVars, lgVars, epVars, thVars>>

\* The server process ends.
Su_Stop ==
    /\ su_pc \in {"up", "crashed"}
    /\ su_pc' = "down"
    /\ su_yaml' = NoYaml
    /\ su_env' = NoEnv
    /\ su_flags' = NoFlags
    /\ su_tools' = {}
    /\ su_regs' = <<>>
    /\ UNCHANGED <<mbpVars, inspVars, preVars, logVars, lgVars, epVars, thVars>>

Su_Next == Su_Start \/ Su_Stop

(* Claims about startup.                                                    *)

\* Startup has run: the process is up, or its startup raised.
Started == su_pc \in {"up", "crashed"}

\* The server-housekeeping tool and the four core groups.
CoreTools ==
    {"server_manager", "model_preflight", "simulation_manager", "file_utils",
     "post_processing"}

\* C17: whatever the tool-surface configuration (mode masters, domains, hybrid
\* or absent, any MCP_EXPOSE_* flags), startup registers the
\* server-housekeeping tool and the core groups preflight, simulation, file
\* utilities and post-processing.
C17_CoreToolsAlwaysRegistered ==
    Started /\ su_yaml.mode \in {None, "masters", "domains", "hybrid"}
        => CoreTools \subseteq su_tools

\* The handlers of a wrapper group are registered.
Exposed(group) == WrapperTools(group) \subseteq su_tools

\* C18: when tool_surface.enable_wrappers is a boolean, every legacy wrapper
\* group is exposed exactly when that boolean is true, whatever the
\* MCP_EXPOSE_*_WRAPPERS variables say; when it is absent, each group is
\* exposed exactly when its own variable is set.
C18_EnableWrappersOverrides ==
    su_pc = "up" =>
        \A g \in WrapperGroups :
            /\ su_yaml.enable_wrappers \in {"true", "false"} =>
                   (Exposed(g) <=> su_yaml.enable_wrappers = "true")
            /\ su_yaml.enable_wrappers = "absent" => (Exposed(g) <=> g \in su_env.wrappers)

\* The default of a domain manager whose key is absent.
DefaultOn(domain) == domain # "outputs"

\* C19: when domain managers are exposed, each of the four is registered
\* exactly when its tool_surface.domains boolean is true or, its key being
\* absent, its default is on (envelope, internal_loads, hvac; not outputs).
C19_DomainToggles ==
    su_pc = "up" /\ su_flags.domain_managers =>
        \A d \in Domains :
            (DomainTool(d) \in su_tools)
                <=> \/ su_yaml.domains[d] = "true"
                    \/ su_yaml.domains[d] = "absent" /\ DefaultOn(d)

\* The domain managers the YAML toggles leave on.
DomainToolsWanted ==
    {DomainTool(d) : d \in {e \in Domains : \/ su_yaml.domains[e] = "true"
                                            \/ su_yaml.domains[e] = "absent" /\ DefaultOn(e)}}

DomainToolNames == {DomainTool(d) : d \in Domains}

\* The surface the mode or, without one, the two environment variables ask for.
WantsMasters ==
    IF su_yaml.mode \in {"masters", "domains", "hybrid"}
    THEN su_yaml.mode \in {"masters", "hybrid"}
    ELSE EnvFlag(su_env.masters, "true")

WantsDomains ==
    IF su_yaml.mode \in {"masters", "domains", "hybrid"}
    THEN su_yaml.mode \in {"domains", "hybrid"}
    ELSE EnvFlag(su_env.domain_managers, "false")

\* C20: a tool_surface.mode of masters, domains or hybrid alone decides the
\* surface: masters registers the master tools and no domain manager, domains
\* registers domain managers and no master tool, hybrid both; with the mode
\* absent or any other value the two environment variables decide (masters
\* on, domain managers off when unset).
C20_ModeDecidesSurface ==
    Started /\ su_yaml.mode # "Hybrid" =>
        /\ IF WantsMasters THEN MasterTools \subseteq su_tools
           ELSE MasterTools \cap su_tools = {}
        /\ IF WantsDomains THEN DomainToolNames \cap su_tools # {} \/ DomainToolsWanted = {}
           ELSE DomainToolNames \cap su_tools = {}


\* How many times a name was handed to mcp.tool().
TimesRegistered(name) == Cardinality({k \in 1..Len(su_regs) : su_regs[k] = name})

\* C30: startup registers each tool name at most once; modify_basic_parameters
\* is not registered both by tools/modify.py and by server.py.
C30_RegisteredAtMostOnce ==
    Started =>
        /\ \A k \in 1..Len(su_regs) : TimesRegistered(su_regs[k]) <= 1
        /\ TimesRegistered("modify_basic_parameters") <= 1

-----------------------------------------------------------------------------
(***************************************************************************)
(* The master tools registered by tools/simulation.py, tools/hvac_loop.py  *)
(* and tools/files.py, and the outputs list operation in its three copies. *)
(* A handler's response is [kind, text, data, errors]: kind "returned"     *)
(* with the shape of the string handed back, or kind "raised" with the     *)
(* exception that left the handler for the protocol runtime.               *)
(***************************************************************************)

\* How the engine answers one call: a result that parses as JSON, a result that
\* does not, FileNotFoundError, ValueError, or any other exception.
AnswerKinds == {"ok", "raw", "not_found", "invalid", "error"}

Raises(outcome) == outcome \in {"not_found", "invalid", "error"}

ExceptionOf(outcome) ==
    CASE outcome = "not_found" -> "FileNotFoundError"
      [] outcome = "invalid" -> "ValueError"
      [] OTHER -> "Exception"

OutputSections == {"variables", "meters"}

Returned(text) == [kind |-> "returned", text |-> text, data |-> {}, errors |-> {}]

Escaped(outcome) == [kind |-> "raised", text |-> ExceptionOf(outcome), data |-> {}, errors |-> {}]

\* A handler that answers without calling the engine.
Answer(text) == [out |-> Returned(text), engine |-> <<>>]

\* result = ep_manager.<op>(...); return <text> -- outside any try block.
EngineThen(op, outcome, text) ==
    [out |-> IF Raises(outcome) THEN Escaped(outcome) ELSE Returned(text), engine |-> <<op>>]

\* The same call inside try / except FileNotFoundError / except Exception.
EngineCaught(op, outcome, text) ==
    [out |-> CASE outcome = "not_found" -> Returned("file_not_found")
               [] Raises(outcome) -> Returned("error_text")
               [] OTHER -> Returned(text),
     engine |-> <<op>>]

SimActions == {"run", "update_settings", "update_run_period", "status", "capabilities", "other"}

\* tools/simulation.py simulation_manager, with the first test of `run` left out.
simulation_manager_NoIdfCheck(in, env) ==
    CASE in.action = "capabilities" -> Answer("capabilities")
      [] in.action = "run" -> EngineThen("run_simulation", env.main, "done")
      [] in.action = "update_settings" ->
            IF ~in.idf_path \/ ~in.arg THEN Answer("missing")
            ELSE EngineThen("modify_simulation_settings", env.main, "done")
      [] in.action = "update_run_period" ->
            IF ~in.idf_path \/ ~in.arg THEN Answer("missing")
            ELSE EngineThen("modify_simulation_settings", env.main, "done")
      [] in.action = "status" -> Answer("status")
      [] OTHER -> Answer("unsupported")

\* simulation_manager(action, idf_path, ..., settings, run_period, ...):
\* in.arg says that the mapping the action needs is a non-empty dict.
simulation_manager(in, env) ==
    CASE in.action = "capabilities" -> Answer("capabilities")
      [] in.action = "run" ->
            IF ~in.idf_path THEN Answer("missing")
            ELSE EngineThen("run_simulation", env.main, "done")
      [] in.action = "update_settings" ->
            IF ~in.idf_path \/ ~in.arg THEN Answer("missing")
            ELSE EngineThen("modify_simulation_settings", env.main, "done")
      [] in.action = "update_run_period" ->
            IF ~in.idf_path \/ ~in.arg THEN Answer("missing")
            ELSE EngineThen("modify_simulation_settings", env.main, "done")
      [] in.action = "status" -> Answer("status")
      [] OTHER -> Answer("unsupported")

HvacActions == {"discover", "topology", "visualize", "other"}

\* hvac_loop_inspect(idf_path, action, ..., loop_name, ...): in.arg says that
\* loop_name is given.  A result that json.loads rejects is carried as {"raw": ...}.
hvac_loop_inspect(in, env) ==
    CASE in.action = "discover" -> EngineThen("discover_hvac_loops", env.main, "json")
      [] in.action = "topology" ->
            IF ~in.arg THEN Answer("error_json")
            ELSE EngineThen("get_loop_topology", env.main, "json")
      [] in.action = "visualize" -> EngineThen("visualize_loop_diagram", env.main, "json")
      [] OTHER -> Answer("error_json")

FileActions == {"list", "copy", "other"}

CopyModes == {"omitted", "dry_run", "apply", "other"}

\* The default of file_utils' mode parameter.
FileModeDefault == "apply"

FileMode(in) == IF in.mode = "omitted" THEN FileModeDefault ELSE in.mode

\* file_utils(action, ..., source_path, target_path, ..., mode): in.arg says
\* that source_path and target_path are both given.
file_utils(in, env) ==
    CASE in.action = "list" -> EngineThen("list_files", env.main, "json")
      [] in.action = "copy" ->
            IF ~in.arg THEN Answer("missing")
            ELSE IF FileMode(in) # "apply" THEN Answer("plan")
            ELSE EngineThen("copy_file", env.main, "done")
      [] OTHER -> Answer("unsupported")

OutputTypes == {"variables", "meters", "both", "BOTH", "Meters", "bad", "none"}

\* str.lower() on the type argument.
LowerType(type) ==
    CASE type = "BOTH" -> "both"
      [] type = "Meters" -> "meters"
      [] OTHER -> type

\* The sections a kind asks for, in the order the code reads them.
Wanted(kind) ==
    (IF kind \in {"variables", "both"} THEN <<"variables">> ELSE <<>>)
    \o (IF kind \in {"meters", "both"} THEN <<"meters">> ELSE <<>>)

\* The engine reader of a section.
Reader(section) == IF section = "variables" THEN "get_output_variables" ELSE "get_output_meters"

\* The two sections of the list operation, the first failure ending the listing.
ListSections_AbortOnFailure(kind, env) ==
    LET all == Wanted(kind)
        read == IF all # <<>> /\ Raises(env[all[1]]) THEN <<all[1]>> ELSE all
        asked == {read[k] : k \in 1..Len(read)}
    IN [data |-> {s \in asked : ~Raises(env[s])},
        errors |-> {s \in asked : Raises(env[s])},
        engine |-> [k \in 1..Len(read) |-> Reader(read[k])]]

\* if kind in ("variables", "both"): try ... except; if kind in ("meters", "both"):
\* try ... except -- the payload's sections, its errors and the readers called.
ListSections(kind, env) ==
    LET read == Wanted(kind)
        asked == {read[k] : k \in 1..Len(read)}
    IN [data |-> {s \in asked : ~Raises(env[s])},
        errors |-> {s \in asked : Raises(env[s])},
        engine |-> [k \in 1..Len(read) |-> Reader(read[k])]]

\* The payload of a listing as a response.
Listing(kind, env) ==
    LET r == ListSections(kind, env)
    IN [out |-> [kind |-> "returned", text |-> "json", data |-> r.data, errors |-> r.errors],
        engine |-> r.engine]

ValidKinds == {"variables", "meters", "both"}

OutputActions == {"list", "add_variables", "add_meters", "capabilities", "other"}

\* domains/outputs.py outputs_manager: type.lower() on None raises inside the
\* outer try.
outputs_manager(in, env) ==
    CASE in.action = "capabilities" -> Answer("capabilities")
      [] ~in.idf_path -> Answer("missing")
      [] in.action = "list" ->
            IF in.type = "none" THEN Answer("error_text")
            ELSE IF LowerType(in.type) \notin ValidKinds THEN Answer("invalid_type")
            ELSE Listing(LowerType(in.type), env)
      [] in.action = "add_variables" ->
            EngineCaught("add_output_variables", env.main, "engine_result")
      [] in.action = "add_meters" ->
            EngineCaught("add_output_meters", env.main, "engine_result")
      [] OTHER -> Answer("unsupported")

\* (type or "variables").lower()
KindOrDefault(type) == IF type = "none" THEN "variables" ELSE LowerType(type)

\* domains/outputs.py outputs_list, the helper orchestrators import.
outputs_list(in, env) ==
    IF KindOrDefault(in.type) \notin ValidKinds THEN Answer("invalid_type")
    ELSE Listing(KindOrDefault(in.type), env)

\* tools/outputs.py get_outputs.
get_outputs(in, env) ==
    IF KindOrDefault(in.type) \notin ValidKinds THEN Answer("invalid_type")
    ELSE Listing(KindOrDefault(in.type), env)

Tools == {"simulation_manager", "hvac_loop_inspect", "file_utils", "outputs_manager", "outputs_list", "get_outputs"}

\* The handlers register_all hands to mcp.tool(); outputs_list is only imported.
RegisteredHandlers == Tools \ {"outputs_list"}

ThEnvs == [main : AnswerKinds, variables : AnswerKinds, meters : AnswerKinds]

\* An engine that is asked nothing but `op`-style single calls.
MainEnv(outcome) == [main |-> outcome, variables |-> "ok", meters |-> "ok"]

NoThArgs == [tool |-> "none", action |-> "none", idf_path |-> FALSE, arg |-> FALSE, mode |-> "omitted", type |-> "variables"]
NoThEnv == MainEnv("ok")
NoThOut == [kind |-> "none", text |-> "", data |-> {}, errors |-> {}]

Th_Init ==
    /\ th_pc = "idle"
    /\ th_in = NoThArgs
    /\ th_env = NoThEnv
    /\ th_out = NoThOut
    /\ th_engine = <<>>

\* The handler `tool` answers the call `in` with the engine behaving as `env`.
Th_Answer(in, env, r) ==
    /\ th_pc = "idle"
    /\ th_pc' = "returned"
    /\ th_in' = in
    /\ th_env' = env
    /\ th_out' = r.out
    /\ th_engine' = r.engine
    /\ UNCHANGED <<mbpVars, inspVars, preVars, logVars, lgVars, epVars, suVars>>

Sim_Call ==
    /\ th_pc = "idle"
    /\ \E action \in SimActions, idf \in BOOLEAN, arg \in BOOLEAN, outcome \in AnswerKinds :
           LET in == [NoThArgs EXCEPT !.tool = "simulation_manager", !.action = action,
                                      !.idf_path = idf, !.arg = arg]
           IN Th_Answer(in, MainEnv(outcome), simulation_manager(in, MainEnv(outcome)))

Hvac_Call ==
    /\ th_pc = "idle"
    /\ \E action \in HvacActions, idf \in BOOLEAN, arg \in BOOLEAN, outcome \in AnswerKinds :
           LET in == [NoThArgs EXCEPT !.tool = "hvac_loop_inspect", !.action = action,
                                      !.idf_path = idf, !.arg = arg]
           IN Th_Answer(in, MainEnv(outcome), hvac_loop_inspect(in, MainEnv(outcome)))

Files_Call ==
    /\ th_pc = "idle"
    /\ \E action \in FileActions, arg \in BOOLEAN, mode \in CopyModes, outcome \in AnswerKinds :
           LET in == [NoThArgs EXCEPT !.tool = "file_utils", !.action = action,
                                      !.arg = arg, !.mode = mode]
           IN Th_Answer(in, MainEnv(outcome), file_utils(in, MainEnv(outcome)))

OutputsManager_Call ==
    /\ th_pc = "idle"
    /\ \E action \in OutputActions, idf \in BOOLEAN, type \in OutputTypes, env \in ThEnvs :
           LET in == [NoThArgs EXCEPT !.tool = "outputs_manager", !.action = action,
                                      !.idf_path = idf, !.type = type]
           IN Th_Answer(in, env, outputs_manager(in, env))

OutputsList_Call ==
    /\ th_pc = "idle"
    /\ \E idf \in BOOLEAN, type \in OutputTypes, env \in ThEnvs :
           LET in == [NoThArgs EXCEPT !.tool = "outputs_list", !.action = "list",
                                      !.idf_path = idf, !.type = type]
           IN Th_Answer(in, env, outputs_list(in, env))

GetOutputs_Call ==
    /\ th_pc = "idle"
    /\ \E idf \in BOOLEAN, type \in OutputTypes, env \in ThEnvs :
           LET in == [NoThArgs EXCEPT !.tool = "get_outputs", !.action = "list",
                                      !.idf_path = idf, !.type = type]
           IN Th_Answer(in, env, get_outputs(in, env))

\* The response (or the exception) is handed to the caller.
Th_Return ==
    /\ th_pc = "returned"
    /\ th_pc' = "idle"
    /\ th_in' = NoThArgs
    /\ th_env' = NoThEnv
    /\ th_out' = NoThOut
    /\ th_engine' = <<>>
    /\ UNCHANGED <<mbpVars, inspVars, preVars, logVars, lgVars, epVars, suVars>>

Th_Next ==
    \/ Sim_Call
    \/ Hvac_Call
    \/ Files_Call
    \/ OutputsManager_Call
    \/ OutputsList_Call
    \/ GetOutputs_Call
    \/ Th_Return

(* Claims about these handlers.                                             *)

ThReturned == th_pc = "returned"

\* C21: whatever the action and whatever the engine does, a registered handler
\* hands back a response string; no exception leaves it.
C21_NoExceptionEscapes ==
    ThReturned /\ th_in.tool \in RegisteredHandlers => th_out.kind = "returned"

NeedsIdf == {"run", "update_settings", "update_run_period"}

C23_CopyNeedsApply ==
    ThReturned /\ th_in.tool = "file_utils" /\ th_in.action = "copy" =>
        /\ th_in.mode # "apply" => th_engine = <<>>
        /\ th_in.mode = "omitted" /\ th_in.arg => th_out = Returned("plan")

BothReaders == <<"get_output_variables", "get_output_meters">>

\* A listing of both sections got as far as the readers.
ListsBoth ==
    /\ ThReturned /\ th_in.tool \in {"outputs_manager", "outputs_list", "get_outputs"}
    /\ th_in.action = "list" /\ LowerType(th_in.type) = "both"
    /\ th_in.tool = "outputs_manager" => th_in.idf_path

\* C24: with type "both" both readers are called, a section whose reader failed
\* is under errors, and the other one is returned all the same.
C24_SectionsIndependent ==
    ListsBoth =>
        /\ th_engine = BothReaders
        /\ th_out.kind = "returned" /\ th_out.text = "json"
        /\ th_out.errors = {s \in OutputSections : Raises(th_env[s])}
        /\ th_out.data = {s \in OutputSections : ~Raises(th_env[s])}

C24_Witness ==
    /\ ListsBoth /\ th_in.tool = "get_outputs"
    /\ th_env.variables = "not_found" /\ th_env.meters = "ok"
    /\ th_out.data = {"meters"} /\ th_out.errors = {"variables"}

-----------------------------------------------------------------------------

Init ==
    Mbp_Init /\ Insp_Init /\ Pre_Init /\ Log_Init /\ Lg_Init /\ Ep_Init /\ Su_Init /\ Th_Init

SpecModify == Init /\ [][Mbp_Next]_vars

SpecInspect == Init /\ [][Insp_Next]_vars

SpecPreflight == Init /\ [][Pre_Next]_vars

SpecLogs == Init /\ [][Log_Next]_vars

SpecLogsRead == Init /\ [][Lg_Next]_vars

SpecErrors == Init /\ [][Ep_Next]_vars

SpecStartup == Init /\ [][Su_Next]_vars

SpecHandlers == Init /\ [][Th_Next]_vars

====
